---- MODULE Spec2Model ----
(***************************************************************************)
(* State-machine model of the Cloud Files bridge                           *)
(* (src/internal/cloudfiles/cfapi_bridge.c and cfapi_bridge.h).            *)
(*                                                                         *)
(* The bridge keeps its state in file-scope globals: a ring buffer of      *)
(* callback requests guarded by a critical section, an auto-reset event    *)
(* that wakes consumers, an initialized flag and the function pointers of  *)
(* cldapi.dll.  Callback threads (owned by the OS) run the On...Callback   *)
(* handlers; application threads run the public CfapiBridge... functions.  *)
(* Every access to shared state that another thread can observe is one     *)
(* step of the model: entering the critical section, the locked body       *)
(* together with the release, SetEvent, and the wait on the event.         *)
(*                                                                         *)
(* A request is modelled by the fields the handlers set from their         *)
(* arguments: type, connectionKey, transferKey, requiredOffset and         *)
(* requiredLength.  Paths, fileSize and isDirectory are copied the same    *)
(* way by the code and are left out.                                       *)
(***************************************************************************)
EXTENDS Integers, Sequences, FiniteSets, TLC

(***************************************************************************)
(* Bounds of the model.                                                    *)
(***************************************************************************)
\* Capacity of the ring.  The header sets 64 (cfapi_bridge.h:11); every
\* definition below is written in terms of this name, and the model runs it
\* with a small value so that a full ring and index wrap-around are reached.
CFAPI_BRIDGE_MAX_QUEUE_SIZE == 2

\* Connection keys the OS hands out, and the ones callers pass back.
ConnKeys == {1, 2}
\* ConnectionKey / TransferKey of the CF_CALLBACK_INFO a callback receives.
CallbackConnKeys == {1}
TransferKeys == {1}
\* RequiredFileOffset / RequiredLength of a FETCH_DATA callback.
FetchOffsets == {1}
FetchLengths == {2}

CallbackThreads == {"cb1", "cb2"}
AppThreads == {"app1", "app2"}
Threads == CallbackThreads \cup AppThreads

(***************************************************************************)
(* Program constants.                                                      *)
(***************************************************************************)
CFAPI_CALLBACK_FETCH_DATA == 0
CFAPI_CALLBACK_CANCEL_FETCH_DATA == 2
CFAPI_CALLBACK_NOTIFY_DELETE == 9
CFAPI_CALLBACK_NOTIFY_RENAME == 11

CFAPI_BRIDGE_OK == 0
CFAPI_BRIDGE_ERROR_NOT_INITIALIZED == -1
CFAPI_BRIDGE_ERROR_QUEUE_FULL == -2
CFAPI_BRIDGE_ERROR_QUEUE_EMPTY == -3
CFAPI_BRIDGE_ERROR_TIMEOUT == -4
CFAPI_BRIDGE_ERROR_API_FAILED == -5
CFAPI_BRIDGE_ERROR_INVALID_PARAM == -6

\* memset(&req, 0, sizeof(req)); also the content of the static array before
\* any write.  Type 0 is CFAPI_CALLBACK_FETCH_DATA.
ZeroRequest ==
    [type |-> 0, connectionKey |-> 0, transferKey |-> 0,
     requiredOffset |-> 0, requiredLength |-> 0]

\* Flag of a TRANSFER_DATA operation that marks the last chunk.
CF_OPERATION_TRANSFER_DATA_FLAG_MARK_IN_SYNC == 1

\* Owner value of a critical section nobody holds.
NoThread == "none"

\* timeoutMs of CfapiBridgeWaitForRequest: a wait that can end with
\* WAIT_TIMEOUT (0 or any finite number of milliseconds; the model has no
\* clock, so they behave alike), or INFINITE.
Timeouts == {"finite", "INFINITE"}

VARIABLES
    g_initialized,      \* 0 or 1
    g_requestQueue,     \* [0 .. capacity-1 -> request]
    g_queueHead,
    g_queueTail,
    g_queueCount,
    g_queueCS,          \* owner of the critical section, or NoThread
    g_newRequestEvent,  \* "NULL", "nonsignaled" or "signaled" (auto-reset event)
    g_cldapiModule,     \* "NULL" or "loaded"
    g_pfn,              \* the four function pointers: "NULL", "valid", "dangling"
    osConnections,      \* connection keys the OS holds a live registration for
    pc,                 \* position of each thread
    req,                \* callback thread: the local CfapiBridgeRequest req
    timeoutMs,          \* application thread: argument of the running wait
    pending,            \* history: requests enqueued and not yet dequeued, oldest first
    last                \* history: what the latest step returned, if it returned

queueVars == <<g_requestQueue, g_queueHead, g_queueTail, g_queueCount>>
libVars == <<g_cldapiModule, g_pfn>>
vars == <<g_initialized, g_requestQueue, g_queueHead, g_queueTail, g_queueCount,
          g_queueCS, g_newRequestEvent, g_cldapiModule, g_pfn, osConnections,
          pc, req, timeoutMs, pending, last>>

Slots == 0 .. (CFAPI_BRIDGE_MAX_QUEUE_SIZE - 1)

\* A step that is the return of a function sets `last`; any other step clears
\* it.  What `last` records of the return: the thread, the function, its result
\* (<<>> for a void function that obtained no result code), the OS calls it
\* made in order, the request it carried (the one a poll copied out, the one
\* a callback was invoked for), for a FETCH_DATA callback what the data
\* source would have answered to its pulls, for CfapiBridgeConnect what it
\* wrote to *connectionKey (<<>> when it wrote nothing) and the callback table
\* it handed to CfConnectSyncRoot (<<>> when it did not call it), and for the
\* functions that validate their arguments the arguments they test.
Returned(t, op, result, calls) ==
    [thread |-> t, op |-> op, result |-> result, calls |-> calls,
     request |-> ZeroRequest, source |-> <<>>, connectionKey |-> <<>>,
     callbacks |-> <<>>, args |-> <<>>]

NoReturn == Returned(NoThread, "none", <<>>, <<>>)

NullPfn ==
    [CfConnectSyncRoot |-> "NULL", CfDisconnectSyncRoot |-> "NULL",
     CfExecute |-> "NULL", CfReportProviderProgress |-> "NULL"]

Init ==
    /\ g_initialized = 0
    /\ g_requestQueue = [i \in Slots |-> ZeroRequest]
    /\ g_queueHead = 0
    /\ g_queueTail = 0
    /\ g_queueCount = 0
    /\ g_queueCS = NoThread
    /\ g_newRequestEvent = "NULL"
    /\ g_cldapiModule = "NULL"
    /\ g_pfn = NullPfn
    /\ osConnections = {}
    /\ pc = [t \in Threads |-> "idle"]
    /\ req = [t \in CallbackThreads |-> ZeroRequest]
    /\ timeoutMs = [t \in AppThreads |-> "finite"]
    /\ pending = <<>>
    /\ last = NoReturn

(***************************************************************************)
(* The data source (GoFetchDataChunk, cfapi_bridge.h:226-231) answers a    *)
(* pull with {errorCode, dataLength}; dataLength 0 with errorCode 0 is     *)
(* end-of-file.  A script is the list of answers the source gives to the   *)
(* successive pulls of one FETCH_DATA request of FetchLengths bytes.       *)
(***************************************************************************)
ChunkResponse(errorCode, dataLength) ==
    [errorCode |-> errorCode, dataLength |-> dataLength]

GoFetchDataChunk ==
    { <<ChunkResponse(0, 1), ChunkResponse(0, 1)>>,      \* all bytes, two chunks
      <<ChunkResponse(0, 2)>>,                           \* all bytes, one chunk
      <<ChunkResponse(0, 1), ChunkResponse(-1, 0)>>,     \* error on chunk 2
      <<ChunkResponse(0, 1), ChunkResponse(0, 0)>> }     \* end-of-file after 1 byte

\* The answers the data source holds for a callback of the given type.
SourcesFor(type) ==
    IF type = CFAPI_CALLBACK_FETCH_DATA THEN GoFetchDataChunk ELSE {<<>>}

CallbackName(type) ==
    CASE type = CFAPI_CALLBACK_FETCH_DATA -> "OnFetchDataCallback"
      [] type = CFAPI_CALLBACK_CANCEL_FETCH_DATA -> "OnCancelFetchDataCallback"
      [] type = CFAPI_CALLBACK_NOTIFY_DELETE -> "OnNotifyDeleteCallback"
      [] type = CFAPI_CALLBACK_NOTIFY_RENAME -> "OnNotifyRenameCallback"

(***************************************************************************)
(* EnqueueRequest (cfapi_bridge.c:242-260), run by a callback thread.      *)
(***************************************************************************)
\* Variant of QueueIsFull: the comparison is off by one.
QueueIsFull_OffByOne == g_queueCount > CFAPI_BRIDGE_MAX_QUEUE_SIZE

\* if (g_queueCount >= CFAPI_BRIDGE_MAX_QUEUE_SIZE)
QueueIsFull == g_queueCount >= CFAPI_BRIDGE_MAX_QUEUE_SIZE

\* Variant of NextIndex: the index does not wrap around.
NextIndex_NoWrap(i) == i + 1

\* (i + 1) % CFAPI_BRIDGE_MAX_QUEUE_SIZE
NextIndex(i) == (i + 1) % CFAPI_BRIDGE_MAX_QUEUE_SIZE

\* SetEvent on the auto-reset event; on a NULL handle the call fails.
SetEvent(h) == IF h = "NULL" THEN "NULL" ELSE "signaled"

\* The callback returns to the OS: its frame (req) is gone.
CallbackReturns(t, result, calls) ==
    /\ pc' = [pc EXCEPT ![t] = "idle"]
    /\ req' = [req EXCEPT ![t] = ZeroRequest]
    /\ \E src \in SourcesFor(req[t].type) :
          last' = [Returned(t, CallbackName(req[t].type), result, calls)
                     EXCEPT !.request = req[t], !.source = src]

\* EnterCriticalSection(&g_queueCS)
EnqueueRequest_Enter(t) ==
    /\ pc[t] = "enq_enter"
    /\ g_queueCS = NoThread
    /\ g_queueCS' = t
    /\ pc' = [pc EXCEPT ![t] = "enq_cs"]
    /\ last' = NoReturn
    /\ UNCHANGED <<g_initialized, queueVars, g_newRequestEvent, libVars,
                   osConnections, req, timeoutMs, pending>>

\* Variant of EnqueueRequest_Full: the request is written over the oldest
\* slot before the error is returned.
EnqueueRequest_FullOverwrites(t) ==
    /\ pc[t] = "enq_cs"
    /\ QueueIsFull
    /\ g_requestQueue' = [g_requestQueue EXCEPT ![g_queueHead] = req[t]]
    /\ g_queueCS' = NoThread
    /\ CallbackReturns(t, <<CFAPI_BRIDGE_ERROR_QUEUE_FULL>>, <<>>)
    /\ UNCHANGED <<g_initialized, g_queueHead, g_queueTail, g_queueCount,
                   g_newRequestEvent, libVars, osConnections, timeoutMs, pending>>

\* Variant of EnqueueRequest_Full: the early return does not leave the
\* critical section.
EnqueueRequest_FullKeepsLock(t) ==
    /\ pc[t] = "enq_cs"
    /\ QueueIsFull
    /\ CallbackReturns(t, <<CFAPI_BRIDGE_ERROR_QUEUE_FULL>>, <<>>)
    /\ UNCHANGED <<g_initialized, queueVars, g_queueCS, g_newRequestEvent,
                   libVars, osConnections, timeoutMs, pending>>

\* Full: leave the critical section and return CFAPI_BRIDGE_ERROR_QUEUE_FULL;
\* the callers only log the result and return.
EnqueueRequest_Full(t) ==
    /\ pc[t] = "enq_cs"
    /\ QueueIsFull
    /\ g_queueCS' = NoThread
    /\ CallbackReturns(t, <<CFAPI_BRIDGE_ERROR_QUEUE_FULL>>, <<>>)
    /\ UNCHANGED <<g_initialized, queueVars, g_newRequestEvent, libVars,
                   osConnections, timeoutMs, pending>>

\* Variant of EnqueueRequest_Store: the tail is not advanced.
EnqueueRequest_StoreKeepsTail(t) ==
    /\ pc[t] = "enq_cs"
    /\ ~QueueIsFull
    /\ g_requestQueue' = [g_requestQueue EXCEPT ![g_queueTail] = req[t]]
    /\ g_queueCount' = g_queueCount + 1
    /\ g_queueCS' = NoThread
    /\ pending' = Append(pending, req[t])
    /\ pc' = [pc EXCEPT ![t] = "enq_signal"]
    /\ last' = NoReturn
    /\ UNCHANGED <<g_initialized, g_queueHead, g_queueTail, g_newRequestEvent,
                   libVars, osConnections, req, timeoutMs>>

\* memcpy into the tail slot, advance the tail, count++, leave.
EnqueueRequest_Store(t) ==
    /\ pc[t] = "enq_cs"
    /\ ~QueueIsFull
    /\ g_requestQueue' = [g_requestQueue EXCEPT ![g_queueTail] = req[t]]
    /\ g_queueTail' = NextIndex(g_queueTail)
    /\ g_queueCount' = g_queueCount + 1
    /\ g_queueCS' = NoThread
    /\ pending' = Append(pending, req[t])
    /\ pc' = [pc EXCEPT ![t] = "enq_signal"]
    /\ last' = NoReturn
    /\ UNCHANGED <<g_initialized, g_queueHead, g_newRequestEvent, libVars,
                   osConnections, req, timeoutMs>>

\* Variant of EnqueueRequest_SetEvent: the callback also acknowledges the
\* operation to the OS before it returns.
EnqueueRequest_SetEventAcks(t) ==
    /\ pc[t] = "enq_signal"
    /\ g_newRequestEvent' = SetEvent(g_newRequestEvent)
    /\ CallbackReturns(t, <<CFAPI_BRIDGE_OK>>,
          <<[fn |-> "CfExecute", type |-> "ACK_DATA",
             connectionKey |-> req[t].connectionKey,
             transferKey |-> req[t].transferKey, status |-> "S_OK",
             offset |-> 0, length |-> 0, flags |-> 0, ok |-> TRUE]>>)
    /\ UNCHANGED <<g_initialized, queueVars, g_queueCS, libVars,
                   osConnections, timeoutMs, pending>>

\* Variant of EnqueueRequest_SetEvent: the event is not signalled.
EnqueueRequest_SetEventOmitted(t) ==
    /\ pc[t] = "enq_signal"
    /\ CallbackReturns(t, <<CFAPI_BRIDGE_OK>>, <<>>)
    /\ UNCHANGED <<g_initialized, queueVars, g_queueCS, g_newRequestEvent,
                   libVars, osConnections, timeoutMs, pending>>

\* SetEvent(g_newRequestEvent); return CFAPI_BRIDGE_OK.
EnqueueRequest_SetEvent(t) ==
    /\ pc[t] = "enq_signal"
    /\ g_newRequestEvent' = SetEvent(g_newRequestEvent)
    /\ CallbackReturns(t, <<CFAPI_BRIDGE_OK>>, <<>>)
    /\ UNCHANGED <<g_initialized, queueVars, g_queueCS, libVars,
                   osConnections, timeoutMs, pending>>

EnqueueRequest(t) ==
    \/ EnqueueRequest_Enter(t)
    \/ EnqueueRequest_Full(t)
    \/ EnqueueRequest_Store(t)
    \/ EnqueueRequest_SetEvent(t)

(***************************************************************************)
(* The callbacks that build a request and enqueue it                       *)
(* (cfapi_bridge.c:296-400, 481-518).                                      *)
(***************************************************************************)
\* Common shape: if (!g_initialized) return; fill req; EnqueueRequest(&req).
BuildAndEnqueue(t, r) ==
    /\ pc[t] = "idle"
    /\ IF g_initialized = 0
       THEN /\ \E src \in SourcesFor(r.type) :
                 last' = [Returned(t, CallbackName(r.type), <<>>, <<>>)
                            EXCEPT !.request = r, !.source = src]
            /\ UNCHANGED <<pc, req>>
       ELSE /\ req' = [req EXCEPT ![t] = r]
            /\ pc' = [pc EXCEPT ![t] = "enq_enter"]
            /\ last' = NoReturn
    /\ UNCHANGED <<g_initialized, queueVars, g_queueCS, g_newRequestEvent,
                   libVars, osConnections, timeoutMs, pending>>

\* FETCH_DATA: the request carries RequiredFileOffset / RequiredLength when
\* the parameter block is large enough, zeros otherwise.
OnFetchDataCallback(t) ==
    \E ck \in CallbackConnKeys, tk \in TransferKeys, paramsOk \in BOOLEAN,
       off \in FetchOffsets, len \in FetchLengths :
        BuildAndEnqueue(t,
            [type |-> CFAPI_CALLBACK_FETCH_DATA,
             connectionKey |-> ck, transferKey |-> tk,
             requiredOffset |-> IF paramsOk THEN off ELSE 0,
             requiredLength |-> IF paramsOk THEN len ELSE 0])

OnCancelFetchDataCallback(t) ==
    \E ck \in CallbackConnKeys, tk \in TransferKeys :
        BuildAndEnqueue(t,
            [ZeroRequest EXCEPT !.type = CFAPI_CALLBACK_CANCEL_FETCH_DATA,
                                !.connectionKey = ck, !.transferKey = tk])

OnNotifyDeleteCallback(t) ==
    \E ck \in CallbackConnKeys, tk \in TransferKeys :
        BuildAndEnqueue(t,
            [ZeroRequest EXCEPT !.type = CFAPI_CALLBACK_NOTIFY_DELETE,
                                !.connectionKey = ck, !.transferKey = tk])

OnNotifyRenameCallback(t) ==
    \E ck \in CallbackConnKeys, tk \in TransferKeys :
        BuildAndEnqueue(t,
            [ZeroRequest EXCEPT !.type = CFAPI_CALLBACK_NOTIFY_RENAME,
                                !.connectionKey = ck, !.transferKey = tk])

(***************************************************************************)
(* DequeueRequest (cfapi_bridge.c:263-278) and CfapiBridgePollRequest      *)
(* (cfapi_bridge.c:813-823), run by an application thread.                 *)
(***************************************************************************)
ApiReturns(t, op, result, calls) ==
    /\ pc' = [pc EXCEPT ![t] = "idle"]
    /\ last' = Returned(t, op, result, calls)

\* The same for a function that tests its arguments first.
ApiReturnsFor(t, op, result, calls, args) ==
    /\ pc' = [pc EXCEPT ![t] = "idle"]
    /\ last' = [Returned(t, op, result, calls) EXCEPT !.args = args]

CfapiBridgePollRequest(t) ==
    /\ pc[t] = "idle"
    /\ \E requestIsNull \in BOOLEAN :
          IF g_initialized = 0
          THEN ApiReturnsFor(t, "CfapiBridgePollRequest",
                             <<CFAPI_BRIDGE_ERROR_NOT_INITIALIZED>>, <<>>,
                             <<requestIsNull>>)
          ELSE IF requestIsNull
          THEN ApiReturnsFor(t, "CfapiBridgePollRequest",
                             <<CFAPI_BRIDGE_ERROR_INVALID_PARAM>>, <<>>,
                             <<requestIsNull>>)
          ELSE /\ pc' = [pc EXCEPT ![t] = "deq_enter"]
               /\ last' = NoReturn
    /\ UNCHANGED <<g_initialized, queueVars, g_queueCS, g_newRequestEvent,
                   libVars, osConnections, req, timeoutMs, pending>>

\* EnterCriticalSection(&g_queueCS)
DequeueRequest_Enter(t) ==
    /\ pc[t] = "deq_enter"
    /\ g_queueCS = NoThread
    /\ g_queueCS' = t
    /\ pc' = [pc EXCEPT ![t] = "deq_cs"]
    /\ last' = NoReturn
    /\ UNCHANGED <<g_initialized, queueVars, g_newRequestEvent, libVars,
                   osConnections, req, timeoutMs, pending>>

\* if (g_queueCount == 0): leave, return CFAPI_BRIDGE_ERROR_QUEUE_EMPTY.
DequeueRequest_Empty(t) ==
    /\ pc[t] = "deq_cs"
    /\ g_queueCount = 0
    /\ g_queueCS' = NoThread
    /\ ApiReturns(t, "CfapiBridgePollRequest",
                  <<CFAPI_BRIDGE_ERROR_QUEUE_EMPTY>>, <<>>)
    /\ UNCHANGED <<g_initialized, queueVars, g_newRequestEvent, libVars,
                   osConnections, req, timeoutMs, pending>>

\* Variant of DequeueSlot: the newest request is copied out.
DequeueSlot_Newest ==
    (g_queueTail + CFAPI_BRIDGE_MAX_QUEUE_SIZE - 1) % CFAPI_BRIDGE_MAX_QUEUE_SIZE

\* The slot DequeueRequest copies out.
DequeueSlot == g_queueHead

\* Variant of DequeueRequest_Take: the count is not decremented.
DequeueRequest_TakeKeepsCount(t) ==
    /\ pc[t] = "deq_cs"
    /\ g_queueCount # 0
    /\ g_queueHead' = NextIndex(g_queueHead)
    /\ g_queueCS' = NoThread
    /\ pending' = IF pending = <<>> THEN <<>> ELSE Tail(pending)
    /\ pc' = [pc EXCEPT ![t] = "idle"]
    /\ last' = [Returned(t, "CfapiBridgePollRequest", <<CFAPI_BRIDGE_OK>>, <<>>)
                  EXCEPT !.request = g_requestQueue[g_queueHead]]
    /\ UNCHANGED <<g_initialized, g_requestQueue, g_queueTail, g_queueCount,
                   g_newRequestEvent, libVars, osConnections, req, timeoutMs>>

\* memcpy out of the head slot, advance the head, count--, leave.
DequeueRequest_Take(t) ==
    /\ pc[t] = "deq_cs"
    /\ g_queueCount # 0
    /\ g_queueHead' = NextIndex(g_queueHead)
    /\ g_queueCount' = g_queueCount - 1
    /\ g_queueCS' = NoThread
    /\ pending' = IF pending = <<>> THEN <<>> ELSE Tail(pending)
    /\ pc' = [pc EXCEPT ![t] = "idle"]
    /\ last' = [Returned(t, "CfapiBridgePollRequest", <<CFAPI_BRIDGE_OK>>, <<>>)
                  EXCEPT !.request = g_requestQueue[DequeueSlot]]
    /\ UNCHANGED <<g_initialized, g_requestQueue, g_queueTail, g_newRequestEvent,
                   libVars, osConnections, req, timeoutMs>>

DequeueRequest(t) ==
    \/ DequeueRequest_Enter(t)
    \/ DequeueRequest_Empty(t)
    \/ DequeueRequest_Take(t)

(***************************************************************************)
(* CfapiBridgeWaitForRequest (cfapi_bridge.c:788-811).                     *)
(***************************************************************************)
CfapiBridgeWaitForRequest(t) ==
    /\ pc[t] = "idle"
    /\ \E ms \in Timeouts :
          IF g_initialized = 0
          THEN /\ ApiReturns(t, "CfapiBridgeWaitForRequest",
                             <<CFAPI_BRIDGE_ERROR_NOT_INITIALIZED>>, <<>>)
               /\ UNCHANGED timeoutMs
          ELSE /\ pc' = [pc EXCEPT ![t] = "wait_enter"]
               /\ timeoutMs' = [timeoutMs EXCEPT ![t] = ms]
               /\ last' = NoReturn
    /\ UNCHANGED <<g_initialized, queueVars, g_queueCS, g_newRequestEvent,
                   libVars, osConnections, req, pending>>

\* EnterCriticalSection(&g_queueCS)
WaitForRequest_Enter(t) ==
    /\ pc[t] = "wait_enter"
    /\ g_queueCS = NoThread
    /\ g_queueCS' = t
    /\ pc' = [pc EXCEPT ![t] = "wait_cs"]
    /\ last' = NoReturn
    /\ UNCHANGED <<g_initialized, queueVars, g_newRequestEvent, libVars,
                   osConnections, req, timeoutMs, pending>>

\* Variant of HasRequests: a single queued request is not seen.
HasRequests_MoreThanOne == g_queueCount > 1

\* int hasRequests = (g_queueCount > 0)
HasRequests == g_queueCount > 0

\* hasRequests is read, the section is left; if (hasRequests) return OK,
\* else go on to WaitForSingleObject.
WaitForRequest_Check(t) ==
    /\ pc[t] = "wait_cs"
    /\ g_queueCS' = NoThread
    /\ IF HasRequests
       THEN /\ ApiReturns(t, "CfapiBridgeWaitForRequest", <<CFAPI_BRIDGE_OK>>, <<>>)
            /\ timeoutMs' = [timeoutMs EXCEPT ![t] = "finite"]
       ELSE /\ pc' = [pc EXCEPT ![t] = "wait_block"]
            /\ last' = NoReturn
            /\ UNCHANGED timeoutMs
    /\ UNCHANGED <<g_initialized, queueVars, g_newRequestEvent, libVars,
                   osConnections, req, pending>>

\* Variant of WaitForRequest_Wait: WAIT_TIMEOUT is reported as success.
WaitForRequest_WaitTimeoutIsOk(t) ==
    /\ pc[t] = "wait_block"
    /\ g_newRequestEvent # "NULL"
    /\ g_newRequestEvent' = "nonsignaled"
    /\ ApiReturns(t, "CfapiBridgeWaitForRequest", <<CFAPI_BRIDGE_OK>>, <<>>)
    /\ timeoutMs' = [timeoutMs EXCEPT ![t] = "finite"]
    /\ UNCHANGED <<g_initialized, queueVars, g_queueCS, libVars,
                   osConnections, req, pending>>

\* Variant of WaitForRequest_Wait: the event is a manual-reset event, which
\* stays signalled when it releases a waiter.
WaitForRequest_WaitManualReset(t) ==
    /\ pc[t] = "wait_block"
    /\ \/ /\ g_newRequestEvent = "signaled"
          /\ ApiReturns(t, "CfapiBridgeWaitForRequest", <<CFAPI_BRIDGE_OK>>, <<>>)
       \/ /\ g_newRequestEvent = "nonsignaled"
          /\ timeoutMs[t] # "INFINITE"
          /\ ApiReturns(t, "CfapiBridgeWaitForRequest",
                        <<CFAPI_BRIDGE_ERROR_TIMEOUT>>, <<>>)
    /\ timeoutMs' = [timeoutMs EXCEPT ![t] = "finite"]
    /\ UNCHANGED <<g_initialized, queueVars, g_queueCS, g_newRequestEvent,
                   libVars, osConnections, req, pending>>

\* WaitForSingleObject(g_newRequestEvent, timeoutMs): a signalled auto-reset
\* event releases the waiter and resets; otherwise a wait that is not
\* INFINITE ends with WAIT_TIMEOUT.  A handle that CfapiBridgeCleanup closed
\* while the wait was pending leaves the behaviour of the wait undefined: it
\* may fail, end as if signalled or timed out, or never end.
WaitForRequest_Wait(t) ==
    /\ pc[t] = "wait_block"
    /\ \/ /\ g_newRequestEvent = "signaled"
          /\ g_newRequestEvent' = "nonsignaled"
          /\ ApiReturns(t, "CfapiBridgeWaitForRequest", <<CFAPI_BRIDGE_OK>>, <<>>)
       \/ /\ g_newRequestEvent = "nonsignaled"
          /\ timeoutMs[t] # "INFINITE"
          /\ UNCHANGED g_newRequestEvent
          /\ ApiReturns(t, "CfapiBridgeWaitForRequest",
                        <<CFAPI_BRIDGE_ERROR_TIMEOUT>>, <<>>)
       \/ /\ g_newRequestEvent = "NULL"
          /\ UNCHANGED g_newRequestEvent
          /\ \E result \in {CFAPI_BRIDGE_ERROR_API_FAILED, CFAPI_BRIDGE_OK,
                             CFAPI_BRIDGE_ERROR_TIMEOUT} :
                ApiReturns(t, "CfapiBridgeWaitForRequest", <<result>>, <<>>)
    /\ timeoutMs' = [timeoutMs EXCEPT ![t] = "finite"]
    /\ UNCHANGED <<g_initialized, queueVars, g_queueCS, libVars,
                   osConnections, req, pending>>

WaitForRequest(t) ==
    \/ WaitForRequest_Enter(t)
    \/ WaitForRequest_Check(t)
    \/ WaitForRequest_Wait(t)

(***************************************************************************)
(* The OS side.  A call into cldapi.dll is recorded with its arguments and *)
(* whether the OS reported success.                                        *)
(***************************************************************************)
OsCall(fn, type, ck, tk, status, offset, length, ok) ==
    [fn |-> fn, type |-> type, connectionKey |-> ck, transferKey |-> tk,
     status |-> status, offset |-> offset, length |-> length,
     flags |-> 0, ok |-> ok]

PfnNames ==
    {"CfConnectSyncRoot", "CfDisconnectSyncRoot", "CfExecute",
     "CfReportProviderProgress"}
RequiredPfn == {"CfConnectSyncRoot", "CfDisconnectSyncRoot", "CfExecute"}

\* What GetProcAddress can find in the cldapi.dll of the machine: everything,
\* everything but the progress call (older Windows), or a DLL that lacks one
\* of the required entry points.
FoundSets ==
    { PfnNames,
      PfnNames \ {"CfReportProviderProgress"},
      PfnNames \ {"CfExecute"},
      PfnNames \ {"CfConnectSyncRoot"} }

\* GetProcAddress for the four entry points: found ones point into the DLL.
LoadedPfn(found) ==
    [n \in PfnNames |-> IF n \in found THEN "valid" ELSE "NULL"]

\* FreeLibrary leaves the pointers that were set pointing into unmapped code.
AfterFreeLibrary(p) ==
    [n \in PfnNames |-> IF p[n] = "valid" THEN "dangling" ELSE p[n]]

(***************************************************************************)
(* CfapiBridgeInit (cfapi_bridge.c:572-625) and CfapiBridgeCleanup         *)
(* (cfapi_bridge.c:627-648).                                               *)
(***************************************************************************)
\* Variant of CfapiBridgeInitOn: the test of g_initialized does not end the
\* function; the queue indices and the event are initialized again.
CfapiBridgeInitOn_Reinitializes(t, dlls) ==
    /\ pc[t] = "idle"
    /\ \E loadOk \in BOOLEAN, found \in dlls, eventOk \in BOOLEAN :
          IF g_initialized # 0
          THEN \* the indices and the event are set up again
               /\ g_queueHead' = 0
               /\ g_queueTail' = 0
               /\ g_queueCount' = 0
               /\ pending' = <<>>
               /\ g_newRequestEvent' = "nonsignaled"
               /\ ApiReturns(t, "CfapiBridgeInit", <<CFAPI_BRIDGE_OK>>, <<>>)
               /\ UNCHANGED <<g_initialized, g_requestQueue, g_queueCS, libVars>>
          ELSE IF ~loadOk
          THEN \* LoadLibraryW failed: g_cldapiModule is NULL
               /\ g_cldapiModule' = "NULL"
               /\ ApiReturns(t, "CfapiBridgeInit",
                             <<CFAPI_BRIDGE_ERROR_API_FAILED>>, <<>>)
               /\ UNCHANGED <<g_initialized, queueVars, g_queueCS,
                              g_newRequestEvent, g_pfn, pending>>
          ELSE IF ~(RequiredPfn \subseteq found)
          THEN \* a required entry point is missing: FreeLibrary
               /\ g_pfn' = AfterFreeLibrary(LoadedPfn(found))
               /\ g_cldapiModule' = "NULL"
               /\ ApiReturns(t, "CfapiBridgeInit",
                             <<CFAPI_BRIDGE_ERROR_API_FAILED>>, <<>>)
               /\ UNCHANGED <<g_initialized, queueVars, g_queueCS,
                              g_newRequestEvent, pending>>
          ELSE IF ~eventOk
          THEN \* CreateEventW failed: DeleteCriticalSection, FreeLibrary
               /\ g_pfn' = AfterFreeLibrary(LoadedPfn(found))
               /\ g_cldapiModule' = "NULL"
               /\ g_newRequestEvent' = "NULL"
               /\ g_queueCS' = NoThread
               /\ ApiReturns(t, "CfapiBridgeInit",
                             <<CFAPI_BRIDGE_ERROR_API_FAILED>>, <<>>)
               /\ UNCHANGED <<g_initialized, queueVars, pending>>
          ELSE \* success: the indices are reset, the slots are not cleared
               /\ g_pfn' = LoadedPfn(found)
               /\ g_cldapiModule' = "loaded"
               /\ g_queueCS' = NoThread
               /\ g_newRequestEvent' = "nonsignaled"
               /\ g_queueHead' = 0
               /\ g_queueTail' = 0
               /\ g_queueCount' = 0
               /\ pending' = <<>>
               /\ g_initialized' = 1
               /\ ApiReturns(t, "CfapiBridgeInit", <<CFAPI_BRIDGE_OK>>, <<>>)
               /\ UNCHANGED g_requestQueue
    /\ UNCHANGED <<osConnections, req, timeoutMs>>

\* dlls: what the cldapi.dll of the machine may export.
CfapiBridgeInitOn(t, dlls) ==
    /\ pc[t] = "idle"
    /\ \E loadOk \in BOOLEAN, found \in dlls, eventOk \in BOOLEAN :
          IF g_initialized # 0
          THEN \* Already initialized
               /\ ApiReturns(t, "CfapiBridgeInit", <<CFAPI_BRIDGE_OK>>, <<>>)
               /\ UNCHANGED <<g_initialized, queueVars, g_queueCS,
                              g_newRequestEvent, libVars, pending>>
          ELSE IF ~loadOk
          THEN \* LoadLibraryW failed: g_cldapiModule is NULL
               /\ g_cldapiModule' = "NULL"
               /\ ApiReturns(t, "CfapiBridgeInit",
                             <<CFAPI_BRIDGE_ERROR_API_FAILED>>, <<>>)
               /\ UNCHANGED <<g_initialized, queueVars, g_queueCS,
                              g_newRequestEvent, g_pfn, pending>>
          ELSE IF ~(RequiredPfn \subseteq found)
          THEN \* a required entry point is missing: FreeLibrary
               /\ g_pfn' = AfterFreeLibrary(LoadedPfn(found))
               /\ g_cldapiModule' = "NULL"
               /\ ApiReturns(t, "CfapiBridgeInit",
                             <<CFAPI_BRIDGE_ERROR_API_FAILED>>, <<>>)
               /\ UNCHANGED <<g_initialized, queueVars, g_queueCS,
                              g_newRequestEvent, pending>>
          ELSE IF ~eventOk
          THEN \* CreateEventW failed: DeleteCriticalSection, FreeLibrary
               /\ g_pfn' = AfterFreeLibrary(LoadedPfn(found))
               /\ g_cldapiModule' = "NULL"
               /\ g_newRequestEvent' = "NULL"
               /\ g_queueCS' = NoThread
               /\ ApiReturns(t, "CfapiBridgeInit",
                             <<CFAPI_BRIDGE_ERROR_API_FAILED>>, <<>>)
               /\ UNCHANGED <<g_initialized, queueVars, pending>>
          ELSE \* success: the indices are reset, the slots are not cleared
               /\ g_pfn' = LoadedPfn(found)
               /\ g_cldapiModule' = "loaded"
               /\ g_queueCS' = NoThread
               /\ g_newRequestEvent' = "nonsignaled"
               /\ g_queueHead' = 0
               /\ g_queueTail' = 0
               /\ g_queueCount' = 0
               /\ pending' = <<>>
               /\ g_initialized' = 1
               /\ ApiReturns(t, "CfapiBridgeInit", <<CFAPI_BRIDGE_OK>>, <<>>)
               /\ UNCHANGED g_requestQueue
    /\ UNCHANGED <<osConnections, req, timeoutMs>>

CfapiBridgeInit(t) == CfapiBridgeInitOn(t, FoundSets)

CfapiBridgeCleanup(t) ==
    /\ pc[t] = "idle"
    /\ IF g_initialized = 0
       THEN /\ ApiReturns(t, "CfapiBridgeCleanup", <<>>, <<>>)
            /\ UNCHANGED <<g_initialized, g_queueCS, g_newRequestEvent, libVars>>
       ELSE /\ g_initialized' = 0
            /\ g_newRequestEvent' = "NULL"
            /\ g_queueCS' = NoThread
            /\ g_cldapiModule' = "NULL"
            /\ g_pfn' = NullPfn
            /\ ApiReturns(t, "CfapiBridgeCleanup", <<>>, <<>>)
    /\ UNCHANGED <<queueVars, osConnections, req, timeoutMs, pending>>

(***************************************************************************)
(* CfapiBridgeGetQueueCount (cfapi_bridge.c:981-989).                      *)
(***************************************************************************)
\* if (!g_initialized) return 0;
CfapiBridgeGetQueueCount(t) ==
    /\ pc[t] = "idle"
    /\ IF g_initialized = 0
       THEN ApiReturns(t, "CfapiBridgeGetQueueCount", <<0>>, <<>>)
       ELSE /\ pc' = [pc EXCEPT ![t] = "cnt_enter"]
            /\ last' = NoReturn
    /\ UNCHANGED <<g_initialized, queueVars, g_queueCS, g_newRequestEvent,
                   libVars, osConnections, req, timeoutMs, pending>>

\* EnterCriticalSection(&g_queueCS)
GetQueueCount_Enter(t) ==
    /\ pc[t] = "cnt_enter"
    /\ g_queueCS = NoThread
    /\ g_queueCS' = t
    /\ pc' = [pc EXCEPT ![t] = "cnt_cs"]
    /\ last' = NoReturn
    /\ UNCHANGED <<g_initialized, queueVars, g_newRequestEvent, libVars,
                   osConnections, req, timeoutMs, pending>>

\* int count = g_queueCount; LeaveCriticalSection; return count.
GetQueueCount_Read(t) ==
    /\ pc[t] = "cnt_cs"
    /\ g_queueCS' = NoThread
    /\ ApiReturns(t, "CfapiBridgeGetQueueCount", <<g_queueCount>>, <<>>)
    /\ UNCHANGED <<g_initialized, queueVars, g_newRequestEvent, libVars,
                   osConnections, req, timeoutMs, pending>>

GetQueueCount(t) ==
    \/ GetQueueCount_Enter(t)
    \/ GetQueueCount_Read(t)

(***************************************************************************)
(* CfapiBridgeConnect (cfapi_bridge.c:650-768) and CfapiBridgeDisconnect   *)
(* (cfapi_bridge.c:770-786).                                               *)
(***************************************************************************)
\* The callback types and the handler this file defines for each
\* (cfapi_bridge.c:296-568).
CallbackHandler ==
    [FETCH_DATA |-> "OnFetchDataCallback",
     VALIDATE_DATA |-> "OnValidateDataCallback",
     CANCEL_FETCH_DATA |-> "OnCancelFetchDataCallback",
     FETCH_PLACEHOLDERS |-> "OnFetchPlaceholdersCallback",
     CANCEL_FETCH_PLACEHOLDERS |-> "OnCancelFetchPlaceholdersCallback",
     NOTIFY_FILE_OPEN_COMPLETION |-> "OnNotifyFileOpenCompletionCallback",
     NOTIFY_FILE_CLOSE_COMPLETION |-> "OnNotifyFileCloseCompletionCallback",
     NOTIFY_DEHYDRATE |-> "OnNotifyDehydrateCallback",
     NOTIFY_DEHYDRATE_COMPLETION |-> "OnNotifyDehydrateCompletionCallback",
     NOTIFY_DELETE |-> "OnNotifyDeleteCallback",
     NOTIFY_DELETE_COMPLETION |-> "OnNotifyDeleteCompletionCallback",
     NOTIFY_RENAME |-> "OnNotifyRenameCallback",
     NOTIFY_RENAME_COMPLETION |-> "OnNotifyRenameCompletionCallback"]

\* syncRootPath: a null pointer, the empty string or the path of a sync root.
SyncRootPaths == {"NULL", "empty", "path"}

\* Variant of ConnectArgsInvalid: the output pointer is not tested.
ConnectArgsInvalid_PathOnly(syncRootPath, connectionKeyIsNull) ==
    syncRootPath = "NULL"

\* if (!syncRootPath || !connectionKey)
ConnectArgsInvalid(syncRootPath, connectionKeyIsNull) ==
    syncRootPath = "NULL" \/ connectionKeyIsNull

CallbackRegistration(type, callback) == [Type |-> type, Callback |-> callback]

\* Variant of CallbackTable: the table is not terminated.
CallbackTable_NoTerminator ==
    << CallbackRegistration("FETCH_DATA", "OnFetchDataCallback"),
       CallbackRegistration("VALIDATE_DATA", "OnValidateDataCallback"),
       CallbackRegistration("CANCEL_FETCH_DATA", "OnCancelFetchDataCallback"),
       CallbackRegistration("NOTIFY_FILE_OPEN_COMPLETION",
                            "OnNotifyFileOpenCompletionCallback"),
       CallbackRegistration("NOTIFY_FILE_CLOSE_COMPLETION",
                            "OnNotifyFileCloseCompletionCallback"),
       CallbackRegistration("NOTIFY_DEHYDRATE", "OnNotifyDehydrateCallback"),
       CallbackRegistration("NOTIFY_DEHYDRATE_COMPLETION",
                            "OnNotifyDehydrateCompletionCallback"),
       CallbackRegistration("NOTIFY_DELETE", "OnNotifyDeleteCallback"),
       CallbackRegistration("NOTIFY_DELETE_COMPLETION",
                            "OnNotifyDeleteCompletionCallback"),
       CallbackRegistration("NOTIFY_RENAME", "OnNotifyRenameCallback"),
       CallbackRegistration("NOTIFY_RENAME_COMPLETION",
                            "OnNotifyRenameCompletionCallback") >>

\* callbacks[0 .. idx] as CfapiBridgeConnect fills it: FETCH_PLACEHOLDERS and
\* CANCEL_FETCH_PLACEHOLDERS are skipped, CF_CALLBACK_TYPE_NONE with a NULL
\* callback terminates the table.
CallbackTable ==
    << CallbackRegistration("FETCH_DATA", "OnFetchDataCallback"),
       CallbackRegistration("VALIDATE_DATA", "OnValidateDataCallback"),
       CallbackRegistration("CANCEL_FETCH_DATA", "OnCancelFetchDataCallback"),
       CallbackRegistration("NOTIFY_FILE_OPEN_COMPLETION",
                            "OnNotifyFileOpenCompletionCallback"),
       CallbackRegistration("NOTIFY_FILE_CLOSE_COMPLETION",
                            "OnNotifyFileCloseCompletionCallback"),
       CallbackRegistration("NOTIFY_DEHYDRATE", "OnNotifyDehydrateCallback"),
       CallbackRegistration("NOTIFY_DEHYDRATE_COMPLETION",
                            "OnNotifyDehydrateCompletionCallback"),
       CallbackRegistration("NOTIFY_DELETE", "OnNotifyDeleteCallback"),
       CallbackRegistration("NOTIFY_DELETE_COMPLETION",
                            "OnNotifyDeleteCompletionCallback"),
       CallbackRegistration("NOTIFY_RENAME", "OnNotifyRenameCallback"),
       CallbackRegistration("NOTIFY_RENAME_COMPLETION",
                            "OnNotifyRenameCompletionCallback"),
       CallbackRegistration("NONE", "NULL") >>

\* CfapiBridgeConnect returns: what it wrote to *connectionKey, the table it
\* handed to the OS, the arguments it was called with.
ConnectReturns(t, result, calls, key, table, args) ==
    /\ pc' = [pc EXCEPT ![t] = "idle"]
    /\ last' = [Returned(t, "CfapiBridgeConnect", <<result>>, calls)
                  EXCEPT !.connectionKey = key, !.callbacks = table,
                         !.args = args]

\* Variant of CfapiBridgeConnect: a bridge that holds a registration returns
\* success without calling the OS.
CfapiBridgeConnect_NoOpWhenConnected(t) ==
    /\ pc[t] = "idle"
    /\ \E syncRootPath \in SyncRootPaths, connectionKeyIsNull \in BOOLEAN,
          hrOk \in BOOLEAN, connKey \in ConnKeys :
          LET args == <<syncRootPath, connectionKeyIsNull>>
          IN  IF g_initialized = 0
              THEN /\ ConnectReturns(t, CFAPI_BRIDGE_ERROR_NOT_INITIALIZED,
                                     <<>>, <<>>, <<>>, args)
                   /\ UNCHANGED osConnections
              ELSE IF ConnectArgsInvalid(syncRootPath, connectionKeyIsNull)
              THEN /\ ConnectReturns(t, CFAPI_BRIDGE_ERROR_INVALID_PARAM,
                                     <<>>, <<>>, <<>>, args)
                   /\ UNCHANGED osConnections
              ELSE IF osConnections # {}
              THEN /\ ConnectReturns(t, CFAPI_BRIDGE_OK, <<>>, <<>>, <<>>, args)
                   /\ UNCHANGED osConnections
              ELSE IF hrOk /\ connKey \notin osConnections
              THEN \* the OS registers the callback table under a new key
                   \* and *connectionKey = connKey
                   /\ osConnections' = osConnections \cup {connKey}
                   /\ ConnectReturns(t, CFAPI_BRIDGE_OK,
                         <<OsCall("CfConnectSyncRoot", "CONNECT", connKey, 0,
                                  "S_OK", 0, 0, TRUE)>>,
                         <<connKey>>, CallbackTable, args)
              ELSE /\ ConnectReturns(t, CFAPI_BRIDGE_ERROR_API_FAILED,
                         <<OsCall("CfConnectSyncRoot", "CONNECT", 0, 0,
                                  "S_OK", 0, 0, FALSE)>>,
                         <<>>, CallbackTable, args)
                   /\ UNCHANGED osConnections
    /\ UNCHANGED <<g_initialized, queueVars, g_queueCS, g_newRequestEvent,
                   libVars, req, timeoutMs, pending>>

\* Variant of CfapiBridgeConnect: *connectionKey is assigned before the
\* HRESULT is tested.
CfapiBridgeConnect_WritesKeyOnFailure(t) ==
    /\ pc[t] = "idle"
    /\ \E syncRootPath \in SyncRootPaths, connectionKeyIsNull \in BOOLEAN,
          hrOk \in BOOLEAN, connKey \in ConnKeys :
          LET args == <<syncRootPath, connectionKeyIsNull>>
          IN  IF g_initialized = 0
              THEN /\ ConnectReturns(t, CFAPI_BRIDGE_ERROR_NOT_INITIALIZED,
                                     <<>>, <<>>, <<>>, args)
                   /\ UNCHANGED osConnections
              ELSE IF ConnectArgsInvalid(syncRootPath, connectionKeyIsNull)
              THEN /\ ConnectReturns(t, CFAPI_BRIDGE_ERROR_INVALID_PARAM,
                                     <<>>, <<>>, <<>>, args)
                   /\ UNCHANGED osConnections
              ELSE IF hrOk /\ connKey \notin osConnections
              THEN \* the OS registers the callback table under a new key
                   \* and *connectionKey = connKey
                   /\ osConnections' = osConnections \cup {connKey}
                   /\ ConnectReturns(t, CFAPI_BRIDGE_OK,
                         <<OsCall("CfConnectSyncRoot", "CONNECT", connKey, 0,
                                  "S_OK", 0, 0, TRUE)>>,
                         <<connKey>>, CallbackTable, args)
              ELSE /\ ConnectReturns(t, CFAPI_BRIDGE_ERROR_API_FAILED,
                         <<OsCall("CfConnectSyncRoot", "CONNECT", 0, 0,
                                  "S_OK", 0, 0, FALSE)>>,
                         <<0>>, CallbackTable, args)
                   /\ UNCHANGED osConnections
    /\ UNCHANGED <<g_initialized, queueVars, g_queueCS, g_newRequestEvent,
                   libVars, req, timeoutMs, pending>>

\* The arguments are tested, the table is built, CfConnectSyncRoot is called;
\* *connectionKey is written only when the call succeeded.
CfapiBridgeConnect(t) ==
    /\ pc[t] = "idle"
    /\ \E syncRootPath \in SyncRootPaths, connectionKeyIsNull \in BOOLEAN,
          hrOk \in BOOLEAN, connKey \in ConnKeys :
          LET args == <<syncRootPath, connectionKeyIsNull>>
          IN  IF g_initialized = 0
              THEN /\ ConnectReturns(t, CFAPI_BRIDGE_ERROR_NOT_INITIALIZED,
                                     <<>>, <<>>, <<>>, args)
                   /\ UNCHANGED osConnections
              ELSE IF ConnectArgsInvalid(syncRootPath, connectionKeyIsNull)
              THEN /\ ConnectReturns(t, CFAPI_BRIDGE_ERROR_INVALID_PARAM,
                                     <<>>, <<>>, <<>>, args)
                   /\ UNCHANGED osConnections
              ELSE IF hrOk /\ connKey \notin osConnections
              THEN \* the OS registers the callback table under a new key
                   \* and *connectionKey = connKey
                   /\ osConnections' = osConnections \cup {connKey}
                   /\ ConnectReturns(t, CFAPI_BRIDGE_OK,
                         <<OsCall("CfConnectSyncRoot", "CONNECT", connKey, 0,
                                  "S_OK", 0, 0, TRUE)>>,
                         <<connKey>>, CallbackTable, args)
              ELSE /\ ConnectReturns(t, CFAPI_BRIDGE_ERROR_API_FAILED,
                         <<OsCall("CfConnectSyncRoot", "CONNECT", 0, 0,
                                  "S_OK", 0, 0, FALSE)>>,
                         <<>>, CallbackTable, args)
                   /\ UNCHANGED osConnections
    /\ UNCHANGED <<g_initialized, queueVars, g_queueCS, g_newRequestEvent,
                   libVars, req, timeoutMs, pending>>

CfapiBridgeDisconnect(t) ==
    /\ pc[t] = "idle"
    /\ \E connectionKey \in ConnKeys :
          IF g_initialized = 0
          THEN /\ ApiReturns(t, "CfapiBridgeDisconnect",
                             <<CFAPI_BRIDGE_ERROR_NOT_INITIALIZED>>, <<>>)
               /\ UNCHANGED osConnections
          ELSE \* the OS accepts the key of a live registration only
               /\ osConnections' = osConnections \ {connectionKey}
               /\ ApiReturns(t, "CfapiBridgeDisconnect",
                             <<IF connectionKey \in osConnections
                               THEN CFAPI_BRIDGE_OK
                               ELSE CFAPI_BRIDGE_ERROR_API_FAILED>>,
                             <<OsCall("CfDisconnectSyncRoot", "DISCONNECT",
                                      connectionKey, 0, "S_OK", 0, 0,
                                      connectionKey \in osConnections)>>)
    /\ UNCHANGED <<g_initialized, queueVars, g_queueCS, g_newRequestEvent,
                   libVars, req, timeoutMs, pending>>

(***************************************************************************)
(* The completion functions (cfapi_bridge.c:825-975, 998-1041).  Each is   *)
(* one call into the OS at most; its outcome is the result code and the    *)
(* OS calls made.  hrOk is the OS's answer, SUCCEEDED(hr).                 *)
(***************************************************************************)
Outcome(result, calls) == [result |-> result, calls |-> calls]

ApiResult(hrOk) ==
    IF hrOk THEN CFAPI_BRIDGE_OK ELSE CFAPI_BRIDGE_ERROR_API_FAILED

\* Variant of TransferData: the test of g_initialized is missing.
TransferData_NoInitCheck(connectionKey, transferKey, bufferIsNull, bufferLength, offset, hrOk) ==
    IF bufferIsNull \/ bufferLength <= 0
    THEN Outcome(CFAPI_BRIDGE_ERROR_INVALID_PARAM, <<>>)
    ELSE Outcome(ApiResult(hrOk),
                 <<OsCall("CfExecute", "TRANSFER_DATA", connectionKey, transferKey,
                          "S_OK", offset, bufferLength, hrOk)>>)

TransferData(connectionKey, transferKey, bufferIsNull, bufferLength, offset, hrOk) ==
    IF g_initialized = 0
    THEN Outcome(CFAPI_BRIDGE_ERROR_NOT_INITIALIZED, <<>>)
    ELSE IF bufferIsNull \/ bufferLength <= 0
    THEN Outcome(CFAPI_BRIDGE_ERROR_INVALID_PARAM, <<>>)
    ELSE Outcome(ApiResult(hrOk),
                 <<OsCall("CfExecute", "TRANSFER_DATA", connectionKey, transferKey,
                          "S_OK", offset, bufferLength, hrOk)>>)

TransferComplete(connectionKey, transferKey, hrOk) ==
    IF g_initialized = 0
    THEN Outcome(CFAPI_BRIDGE_ERROR_NOT_INITIALIZED, <<>>)
    ELSE Outcome(ApiResult(hrOk),
                 <<OsCall("CfExecute", "ACK_DATA", connectionKey, transferKey,
                          "S_OK", 0, 0, hrOk)>>)

TransferError(connectionKey, transferKey, hresult, hrOk) ==
    IF g_initialized = 0
    THEN Outcome(CFAPI_BRIDGE_ERROR_NOT_INITIALIZED, <<>>)
    ELSE Outcome(ApiResult(hrOk),
                 <<OsCall("CfExecute", "TRANSFER_DATA", connectionKey, transferKey,
                          hresult, 0, 0, hrOk)>>)

\* Variant of ReportProgress: a failed OS call is reported to the caller.
ReportProgress_FailureReported(connectionKey, transferKey, hrOk) ==
    IF g_initialized = 0
    THEN Outcome(CFAPI_BRIDGE_ERROR_NOT_INITIALIZED, <<>>)
    ELSE IF g_pfn.CfReportProviderProgress = "NULL"
    THEN Outcome(CFAPI_BRIDGE_OK, <<>>)
    ELSE Outcome(ApiResult(hrOk),
                 <<OsCall("CfReportProviderProgress", "PROGRESS", connectionKey,
                          transferKey, "S_OK", 0, 0, hrOk)>>)

\* A missing CfReportProviderProgress and a failed call both give OK.
ReportProgress(connectionKey, transferKey, hrOk) ==
    IF g_initialized = 0
    THEN Outcome(CFAPI_BRIDGE_ERROR_NOT_INITIALIZED, <<>>)
    ELSE IF g_pfn.CfReportProviderProgress = "NULL"
    THEN Outcome(CFAPI_BRIDGE_OK, <<>>)
    ELSE Outcome(CFAPI_BRIDGE_OK,
                 <<OsCall("CfReportProviderProgress", "PROGRESS", connectionKey,
                          transferKey, "S_OK", 0, 0, hrOk)>>)

\* TRANSFER_PLACEHOLDERS with Flags = 0, S_OK and PlaceholderTotalCount = 0.
AckFetchPlaceholders(connectionKey, transferKey, hrOk) ==
    IF g_initialized = 0
    THEN Outcome(CFAPI_BRIDGE_ERROR_NOT_INITIALIZED, <<>>)
    ELSE Outcome(ApiResult(hrOk),
                 <<OsCall("CfExecute", "TRANSFER_PLACEHOLDERS", connectionKey,
                          transferKey, "S_OK", 0, 0, hrOk)>>)

\* An application thread calls a completion function with the keys of a
\* request it was handed: one step.
ApiCall(t, op, outcome) ==
    /\ pc[t] = "idle"
    /\ ApiReturns(t, op, <<outcome.result>>, outcome.calls)
    /\ UNCHANGED <<g_initialized, queueVars, g_queueCS, g_newRequestEvent,
                   libVars, osConnections, req, timeoutMs, pending>>

\* bufferLength is an int64_t: negative, zero or the length of a chunk.
BufferLengths == {-1, 0} \cup FetchLengths

CfapiBridgeTransferData(t) ==
    \E ck \in CallbackConnKeys, tk \in TransferKeys, bufferIsNull \in BOOLEAN,
       bufferLength \in BufferLengths, offset \in FetchOffsets,
       hrOk \in BOOLEAN :
        LET outcome == TransferData(ck, tk, bufferIsNull, bufferLength, offset, hrOk)
        IN  /\ pc[t] = "idle"
            /\ ApiReturnsFor(t, "CfapiBridgeTransferData", <<outcome.result>>,
                             outcome.calls, <<bufferIsNull, bufferLength>>)
            /\ UNCHANGED <<g_initialized, queueVars, g_queueCS, g_newRequestEvent,
                           libVars, osConnections, req, timeoutMs, pending>>

CfapiBridgeTransferComplete(t) ==
    \E ck \in CallbackConnKeys, tk \in TransferKeys, hrOk \in BOOLEAN :
        ApiCall(t, "CfapiBridgeTransferComplete", TransferComplete(ck, tk, hrOk))

\* CfapiBridgeTransferComplete in two steps, for the runs in which
\* CfapiBridgeCleanup is not kept apart from it.  First the test of
\* g_initialized (cfapi_bridge.c:878-881) and the filling of the operation.
TransferComplete_Check(t) ==
    /\ pc[t] = "idle"
    /\ IF g_initialized = 0
       THEN ApiReturns(t, "CfapiBridgeTransferComplete",
                       <<CFAPI_BRIDGE_ERROR_NOT_INITIALIZED>>, <<>>)
       ELSE /\ pc' = [pc EXCEPT ![t] = "exec_call"]
            /\ last' = NoReturn
    /\ UNCHANGED <<g_initialized, queueVars, g_queueCS, g_newRequestEvent,
                   libVars, osConnections, req, timeoutMs, pending>>

\* Then the call through g_pfnCfExecute (cfapi_bridge.c:895-902).  Through a
\* pointer that CfapiBridgeCleanup has set to NULL the call is an access
\* violation: the thread does not come back.  Through a pointer into an
\* unloaded DLL it may reach the OS or not.
TransferComplete_Execute(t) ==
    /\ pc[t] = "exec_call"
    /\ \E ck \in CallbackConnKeys, tk \in TransferKeys, hrOk \in BOOLEAN,
          reached \in BOOLEAN :
          IF g_pfn.CfExecute = "NULL"
          THEN /\ pc' = [pc EXCEPT ![t] = "faulted"]
               /\ last' = NoReturn
          ELSE /\ g_pfn.CfExecute = "valid" => reached
               /\ ApiReturns(t, "CfapiBridgeTransferComplete",
                     <<ApiResult(hrOk /\ reached)>>,
                     IF reached
                     THEN <<OsCall("CfExecute", "ACK_DATA", ck, tk, "S_OK",
                                   0, 0, hrOk)>>
                     ELSE <<>>)
    /\ UNCHANGED <<g_initialized, queueVars, g_queueCS, g_newRequestEvent,
                   libVars, osConnections, req, timeoutMs, pending>>

CfapiBridgeTransferError(t) ==
    \E ck \in CallbackConnKeys, tk \in TransferKeys, hrOk \in BOOLEAN :
        ApiCall(t, "CfapiBridgeTransferError",
                TransferError(ck, tk, "E_FAIL", hrOk))

CfapiBridgeReportProgress(t) ==
    \E ck \in CallbackConnKeys, tk \in TransferKeys, hrOk \in BOOLEAN :
        ApiCall(t, "CfapiBridgeReportProgress", ReportProgress(ck, tk, hrOk))

CfapiBridgeAckFetchPlaceholders(t) ==
    \E ck \in CallbackConnKeys, tk \in TransferKeys, hrOk \in BOOLEAN :
        ApiCall(t, "CfapiBridgeAckFetchPlaceholders",
                AckFetchPlaceholders(ck, tk, hrOk))

(***************************************************************************)
(* The callbacks that answer the OS themselves                             *)
(* (cfapi_bridge.c:408-429, 521-548).                                      *)
(***************************************************************************)
\* A callback that runs to its return in one step.
CallbackRuns(t, op, result, calls) ==
    /\ pc[t] = "idle"
    /\ last' = Returned(t, op, result, calls)
    /\ UNCHANGED <<g_initialized, queueVars, g_queueCS, g_newRequestEvent,
                   libVars, osConnections, pc, req, timeoutMs, pending>>

\* Logs when the bridge is not initialized, then calls
\* CfapiBridgeAckFetchPlaceholders and logs its result.
OnFetchPlaceholdersCallback(t) ==
    \E ck \in CallbackConnKeys, tk \in TransferKeys, hrOk \in BOOLEAN :
        LET ack == AckFetchPlaceholders(ck, tk, hrOk)
        IN  CallbackRuns(t, "OnFetchPlaceholdersCallback", <<ack.result>>, ack.calls)

\* if (g_pfnCfExecute) CfExecute(ACK_DATA, S_OK).  A pointer left over from a
\* failed Init points into the unloaded DLL: the call may reach the OS or not.
OnValidateDataCallback(t) ==
    \E ck \in CallbackConnKeys, tk \in TransferKeys, hrOk \in BOOLEAN, reached \in BOOLEAN :
        /\ g_pfn.CfExecute = "valid" => reached
        /\ CallbackRuns(t, "OnValidateDataCallback", <<>>,
              IF g_pfn.CfExecute # "NULL" /\ reached
              THEN <<OsCall("CfExecute", "ACK_DATA", ck, tk, "S_OK", 0, 0, hrOk)>>
              ELSE <<>>)

(***************************************************************************)
(* The callbacks that only log (cfapi_bridge.c:432-478, 551-568): each is  *)
(* PrintCallbackInfo and return.                                           *)
(***************************************************************************)
\* CANCEL_FETCH_PLACEHOLDERS: logged, nothing else.
OnCancelFetchPlaceholdersCallback(t) ==
    CallbackRuns(t, "OnCancelFetchPlaceholdersCallback", <<>>, <<>>)

\* NOTIFY_FILE_OPEN_COMPLETION: logged, nothing else.
OnNotifyFileOpenCompletionCallback(t) ==
    CallbackRuns(t, "OnNotifyFileOpenCompletionCallback", <<>>, <<>>)

\* NOTIFY_FILE_CLOSE_COMPLETION: logged, nothing else.
OnNotifyFileCloseCompletionCallback(t) ==
    CallbackRuns(t, "OnNotifyFileCloseCompletionCallback", <<>>, <<>>)

\* Variant of OnNotifyDehydrateCallback: the callback acknowledges the
\* dehydration to the OS.
OnNotifyDehydrateCallback_Acks(t) ==
    \E ck \in CallbackConnKeys, tk \in TransferKeys :
        CallbackRuns(t, "OnNotifyDehydrateCallback", <<>>,
            <<[fn |-> "CfExecute", type |-> "ACK_DEHYDRATE",
               connectionKey |-> ck, transferKey |-> tk, status |-> "S_OK",
               offset |-> 0, length |-> 0, flags |-> 0, ok |-> TRUE]>>)

\* NOTIFY_DEHYDRATE: logged, nothing else.
OnNotifyDehydrateCallback(t) ==
    CallbackRuns(t, "OnNotifyDehydrateCallback", <<>>, <<>>)

\* NOTIFY_DEHYDRATE_COMPLETION: logged, nothing else.
OnNotifyDehydrateCompletionCallback(t) ==
    CallbackRuns(t, "OnNotifyDehydrateCompletionCallback", <<>>, <<>>)

\* NOTIFY_DELETE_COMPLETION: logged, nothing else.
OnNotifyDeleteCompletionCallback(t) ==
    CallbackRuns(t, "OnNotifyDeleteCompletionCallback", <<>>, <<>>)

\* NOTIFY_RENAME_COMPLETION: logged, nothing else.
OnNotifyRenameCompletionCallback(t) ==
    CallbackRuns(t, "OnNotifyRenameCompletionCallback", <<>>, <<>>)

(***************************************************************************)
(* The system.  The callers serialize CfapiBridgeCleanup against callback  *)
(* and consumer traffic: it runs while no other thread is inside a bridge  *)
(* function.                                                               *)
(***************************************************************************)
Quiescent(t) == \A u \in Threads \ {t} : pc[u] = "idle"

\* The data-fetch callbacks and the queue's producer side.
FetchStep(t) ==
    \/ OnFetchDataCallback(t)
    \/ OnCancelFetchDataCallback(t)
    \/ EnqueueRequest(t)

\* The delete and rename notifications and the queue's producer side.
NotificationStep(t) ==
    \/ OnNotifyDeleteCallback(t)
    \/ OnNotifyRenameCallback(t)
    \/ EnqueueRequest(t)

\* The queue's consumer side.
ConsumerStep(t) ==
    \/ CfapiBridgePollRequest(t)
    \/ DequeueRequest(t)
    \/ CfapiBridgeWaitForRequest(t)
    \/ WaitForRequest(t)

LifecycleStep(t) ==
    \/ CfapiBridgeInit(t)
    \/ (Quiescent(t) /\ CfapiBridgeCleanup(t))

\* CfapiBridgeCleanup called while consumers may be blocked in
\* WaitForSingleObject: no other thread is inside the critical section or on
\* its way into it.
OnlyWaiters(t) == \A u \in Threads \ {t} : pc[u] \in {"idle", "wait_block"}

TeardownStep(t) ==
    \/ CfapiBridgeInitOn(t, {PfnNames})
    \/ (OnlyWaiters(t) /\ CfapiBridgeCleanup(t))

\* The lifecycle on a machine whose cldapi.dll exports all four entry points.
FullDllLifecycleStep(t) ==
    \/ CfapiBridgeInitOn(t, {PfnNames})
    \/ (Quiescent(t) /\ CfapiBridgeCleanup(t))

\* The diagnostic read of the queue depth.
QueueCountStep(t) ==
    \/ CfapiBridgeGetQueueCount(t)
    \/ GetQueueCount(t)

ConnectionStep(t) ==
    \/ CfapiBridgeConnect(t)
    \/ CfapiBridgeDisconnect(t)

CompletionStep(t) ==
    \/ CfapiBridgeTransferData(t)
    \/ CfapiBridgeTransferComplete(t)
    \/ CfapiBridgeTransferError(t)
    \/ CfapiBridgeReportProgress(t)
    \/ CfapiBridgeAckFetchPlaceholders(t)

AnsweringStep(t) ==
    \/ OnFetchPlaceholdersCallback(t)
    \/ OnValidateDataCallback(t)

ObservationStep(t) ==
    \/ OnCancelFetchPlaceholdersCallback(t)
    \/ OnNotifyFileOpenCompletionCallback(t)
    \/ OnNotifyFileCloseCompletionCallback(t)
    \/ OnNotifyDehydrateCallback(t)
    \/ OnNotifyDehydrateCompletionCallback(t)
    \/ OnNotifyDeleteCompletionCallback(t)
    \/ OnNotifyRenameCompletionCallback(t)

\* The bridge with one callback thread, which receives the data-fetch,
\* placeholder and validation callbacks, and one application thread, which
\* runs every public function.
Next ==
    \/ FetchStep("cb1")
    \/ AnsweringStep("cb1")
    \/ LifecycleStep("app1")
    \/ ConnectionStep("app1")
    \/ CompletionStep("app1")
    \/ ConsumerStep("app1")

Spec == Init /\ [][Next]_vars

\* The bridge's lifecycle, its connection and the functions and callbacks
\* that answer the OS, with one callback thread that fills the queue and
\* receives the callbacks that only log, and no consumer.
NextApi ==
    \/ NotificationStep("cb1")
    \/ LifecycleStep("app1")
    \/ ConnectionStep("app1")
    \/ CompletionStep("app1")
    \/ AnsweringStep("cb1")
    \/ ObservationStep("cb1")

SpecApi == Init /\ [][NextApi]_vars

\* The request queue under concurrent traffic: every callback thread
\* produces (delete and rename notifications), every application thread
\* consumes, one of them runs the bridge's lifecycle (on a machine whose
\* cldapi.dll is complete: what the DLL exports has no part in the queue).
NextQueue ==
    \/ \E t \in CallbackThreads : NotificationStep(t)
    \/ \E t \in AppThreads : ConsumerStep(t)
    \/ FullDllLifecycleStep("app1")

SpecQueue == Init /\ [][NextQueue]_vars

\* Teardown under traffic: one callback thread produces, one application
\* thread consumes and waits, the other initializes and cleans up the bridge
\* without waiting for the consumer to come back from its wait.
NextTeardown ==
    \/ NotificationStep("cb1")
    \/ ConsumerStep("app2")
    \/ ConnectionStep("app1")
    \/ TeardownStep("app1")

SpecTeardown == Init /\ [][NextTeardown]_vars

\* A fetch and what arrives while it runs: one callback thread receives
\* FETCH_DATA callbacks while another receives the CANCEL_FETCH_DATA,
\* NOTIFY_DELETE and NOTIFY_RENAME callbacks, and one application thread
\* polls.
NextCancel ==
    \/ OnFetchDataCallback("cb1")
    \/ OnCancelFetchDataCallback("cb2")
    \/ OnNotifyDeleteCallback("cb2")
    \/ OnNotifyRenameCallback("cb2")
    \/ \E t \in CallbackThreads : EnqueueRequest(t)
    \/ CfapiBridgePollRequest("app1")
    \/ DequeueRequest("app1")
    \/ FullDllLifecycleStep("app1")

SpecCancel == Init /\ [][NextCancel]_vars

\* The functions that test their arguments: one callback thread fills the
\* queue, one application thread initializes, connects, polls and transfers
\* data.
NextArgs ==
    \/ NotificationStep("cb1")
    \/ FullDllLifecycleStep("app1")
    \/ ConnectionStep("app1")
    \/ CfapiBridgePollRequest("app1")
    \/ DequeueRequest("app1")
    \/ CfapiBridgeTransferData("app1")

SpecArgs == Init /\ [][NextArgs]_vars

\* Every user of the critical section at once: the callback threads
\* produce, one application thread polls and waits and runs the lifecycle,
\* the other reads the queue depth and submits completions.
NextLock ==
    \/ \E t \in CallbackThreads : NotificationStep(t)
    \/ ConsumerStep("app1")
    \/ QueueCountStep("app2")
    \/ CfapiBridgeTransferData("app2")
    \/ FullDllLifecycleStep("app1")

SpecLock == Init /\ [][NextLock]_vars

\* A bridge that stays initialized: the callback threads produce, one
\* application thread initializes the bridge and then consumes with
\* CfapiBridgeWaitForRequest and CfapiBridgePollRequest; CfapiBridgeCleanup
\* is not called.
NextLive ==
    \/ \E t \in CallbackThreads : NotificationStep(t)
    \/ ConsumerStep("app1")
    \/ CfapiBridgeInitOn("app1", {PfnNames})

\* The consumer calls CfapiBridgePollRequest with a buffer.
PollBegins(t) == CfapiBridgePollRequest(t) /\ pc'[t] = "deq_enter"

\* Scheduling is fair: a thread that is inside EnqueueRequest, DequeueRequest
\* or CfapiBridgeWaitForRequest and can take its next step again and again
\* takes it (a thread at EnterCriticalSection gets the section when it is
\* released again and again; a wait without timeout on an event that is
\* never signalled does not end), and the consumer's loop comes back to
\* CfapiBridgePollRequest as long as its calls return.  Nothing obliges the
\* OS to invoke a callback.
Fairness ==
    /\ \A t \in CallbackThreads : SF_vars(EnqueueRequest(t))
    /\ SF_vars(DequeueRequest("app1"))
    /\ SF_vars(WaitForRequest("app1"))
    /\ SF_vars(PollBegins("app1"))

SpecLive == Init /\ [][NextLive]_vars /\ Fairness

\* CfapiBridgeCleanup with nothing that keeps it apart from the other
\* threads: one callback thread produces, one application thread polls,
\* waits, reads the queue depth and completes transfers, the other
\* initializes and cleans up the bridge at any moment.  What a thread does
\* with a critical section that was deleted is undefined; the model lets it
\* go on as if the section were a fresh one.
NextRace ==
    \/ NotificationStep("cb1")
    \/ ConsumerStep("app2")
    \/ QueueCountStep("app2")
    \/ TransferComplete_Check("app2")
    \/ TransferComplete_Execute("app2")
    \/ CfapiBridgeInitOn("app1", {PfnNames})
    \/ CfapiBridgeCleanup("app1")

SpecRace == Init /\ [][NextRace]_vars

(***************************************************************************)
(* Properties of the request queue, checked under SpecQueue.               *)
(***************************************************************************)

\* C1: in every state reachable by any interleaving of enqueues by callback
\* threads and polls and waits by consumers, 0 <= g_queueCount <= capacity.
CountWithinCapacity ==
    /\ 0 <= g_queueCount
    /\ g_queueCount <= CFAPI_BRIDGE_MAX_QUEUE_SIZE

\* The ring is full while another callback thread sits in the critical
\* section, about to test the count.
CountWithinCapacity_Witness ==
    /\ g_queueCount = CFAPI_BRIDGE_MAX_QUEUE_SIZE
    /\ \E t \in CallbackThreads : pc[t] = "enq_cs"

\* The step in which thread t leaves DequeueRequest.
DequeueReturns(t) == pc[t] = "deq_cs" /\ pc'[t] = "idle"

\* C2: the requests returned by successful dequeues are the successfully
\* enqueued requests in the order of their enqueue: every dequeue returns the
\* oldest request enqueued and not yet returned, and reports an empty queue
\* only when every enqueued request has been returned.
FifoStep ==
    \A t \in AppThreads :
        DequeueReturns(t) =>
            /\ last'.thread = t
            /\ IF pending = <<>>
               THEN /\ last'.result = <<CFAPI_BRIDGE_ERROR_QUEUE_EMPTY>>
                    /\ pending' = <<>>
               ELSE /\ last'.result = <<CFAPI_BRIDGE_OK>>
                    /\ last'.request = Head(pending)
                    /\ pending' = Tail(pending)

FifoOrder == [][FifoStep]_vars

\* A dequeue has returned a request out of the last slot of the ring while
\* the requests behind it lie at the start of the ring: the live part of the
\* ring wraps around.
FifoOrder_Witness ==
    /\ last.op = "CfapiBridgePollRequest"
    /\ last.result = <<CFAPI_BRIDGE_OK>>
    /\ last.request.type # ZeroRequest.type
    /\ g_queueHead = 0
    /\ g_queueCount > 0
    /\ g_queueTail <= g_queueCount
    /\ pending # <<>>

\* The step in which thread t leaves the locked part of EnqueueRequest.
EnqueueLeavesSection(t) == pc[t] = "enq_cs" /\ pc'[t] # "enq_cs"

\* C3: EnqueueRequest on a queue whose count equals the capacity returns
\* CFAPI_BRIDGE_ERROR_QUEUE_FULL, leaves head, tail, count and every slot
\* unchanged, and returns without reaching SetEvent.
FullEnqueueStep ==
    \A t \in CallbackThreads :
        (EnqueueLeavesSection(t) /\ g_queueCount = CFAPI_BRIDGE_MAX_QUEUE_SIZE) =>
            /\ last'.thread = t
            /\ last'.result = <<CFAPI_BRIDGE_ERROR_QUEUE_FULL>>
            /\ pc'[t] = "idle"
            /\ g_requestQueue' = g_requestQueue
            /\ g_queueHead' = g_queueHead
            /\ g_queueTail' = g_queueTail
            /\ g_queueCount' = g_queueCount
            /\ pending' = pending
            /\ g_newRequestEvent' = g_newRequestEvent

FullEnqueueRejected == [][FullEnqueueStep]_vars

\* An enqueue has just been refused on a full ring.
FullEnqueueRejected_Witness ==
    /\ last.thread \in CallbackThreads
    /\ last.result = <<CFAPI_BRIDGE_ERROR_QUEUE_FULL>>
    /\ g_queueCount = CFAPI_BRIDGE_MAX_QUEUE_SIZE

\* The step in which thread t, inside CfapiBridgeWaitForRequest, has read
\* the count and leaves the critical section.
WaitLeavesSection(t) == pc[t] = "wait_cs" /\ pc'[t] # "wait_cs"

\* C10: CfapiBridgeWaitForRequest that finds the queue non-empty returns
\* CFAPI_BRIDGE_OK at once: it does not go on to wait on the event and leaves
\* the event as it is, signalled or not, for every timeoutMs.
WaitNonEmptyStep ==
    \A t \in AppThreads :
        (WaitLeavesSection(t) /\ g_queueCount > 0) =>
            /\ pc'[t] = "idle"
            /\ last'.thread = t
            /\ last'.op = "CfapiBridgeWaitForRequest"
            /\ last'.result = <<CFAPI_BRIDGE_OK>>
            /\ g_newRequestEvent' = g_newRequestEvent
            /\ UNCHANGED queueVars

WaitReturnsWhenNonEmpty == [][WaitNonEmptyStep]_vars

\* A wait with an INFINITE timeout is about to read the count of a non-empty
\* queue whose event is not signalled: another consumer took the signal.
WaitReturnsWhenNonEmpty_Witness ==
    \E t \in AppThreads :
        /\ pc[t] = "wait_cs"
        /\ timeoutMs[t] = "INFINITE"
        /\ g_queueCount > 0
        /\ g_newRequestEvent = "nonsignaled"

(***************************************************************************)
(* Properties of the callbacks that answer the OS.                         *)
(***************************************************************************)
IsAcknowledgment(c) ==
    /\ c.fn = "CfExecute"
    /\ c.type = "TRANSFER_PLACEHOLDERS"
    /\ c.status = "S_OK"
    /\ c.length = 0

\* C4: every invocation of OnFetchPlaceholdersCallback has submitted exactly
\* one TRANSFER_PLACEHOLDERS acknowledgment (count 0) to the OS when it
\* returns, also when the bridge is not initialized.
FetchPlaceholdersAcknowledged ==
    last.op = "OnFetchPlaceholdersCallback" =>
        Len(SelectSeq(last.calls, IsAcknowledgment)) = 1

IsDataCompletion(c) ==
    c.fn = "CfExecute" /\ c.type = "TRANSFER_DATA" /\ c.status = "S_OK"

IsErrorCompletion(c) ==
    c.fn = "CfExecute" /\ c.type = "TRANSFER_DATA" /\ c.status # "S_OK"

IsFinal(c) == c.flags = CF_OPERATION_TRANSFER_DATA_FLAG_MARK_IN_SYNC

IsTerminalCompletion(c) ==
    IsErrorCompletion(c) \/ (IsDataCompletion(c) /\ IsFinal(c))

\* The return of a FETCH_DATA callback.
FetchDataReturned == last.op = "OnFetchDataCallback"

\* C5: OnFetchDataCallback never returns to the OS without having submitted
\* a terminal completion for the request (a final transfer-data completion
\* or a transfer-error completion), whatever the path: data-source error,
\* queue full, bridge not initialized.
FetchDataAnswered ==
    FetchDataReturned =>
        \E i \in DOMAIN last.calls : IsTerminalCompletion(last.calls[i])

\* Bytes the first n answers of a data source deliver.
RECURSIVE Delivered(_, _)
Delivered(source, n) ==
    IF n = 0 THEN 0 ELSE Delivered(source, n - 1) + source[n].dataLength

\* The source answers with data only and delivers exactly `length` bytes.
SourceIsComplete(source, length) ==
    /\ length > 0
    /\ \A i \in DOMAIN source :
          source[i].errorCode = 0 /\ source[i].dataLength > 0
    /\ Delivered(source, Len(source)) = length

\* C6: when the data source returns exactly requiredLength bytes in N chunks
\* without error, the FETCH_DATA callback has submitted exactly N
\* transfer-data completions whose ranges partition
\* [requiredOffset, requiredOffset + requiredLength) in increasing order, and
\* only the last one is marked final.
FetchDataPartitionsRange ==
    (FetchDataReturned
       /\ SourceIsComplete(last.source, last.request.requiredLength)) =>
        LET data == SelectSeq(last.calls, IsDataCompletion)
        IN  /\ Len(data) = Len(last.source)
            /\ \A i \in DOMAIN data :
                  /\ data[i].length = last.source[i].dataLength
                  /\ data[i].offset =
                        last.request.requiredOffset + Delivered(last.source, i - 1)
                  /\ IsFinal(data[i]) <=> (i = Len(data))

\* C7: when the data source answers chunk k with an error, the FETCH_DATA
\* callback has submitted exactly one transfer-error completion, as its last
\* call (no transfer-data completion after it), and has pulled no further:
\* the k-1 chunks before it are all the data it submitted.
FetchDataErrorEndsTransfer ==
    \A k \in DOMAIN last.source :
        (FetchDataReturned
           /\ last.request.requiredLength > 0
           /\ last.source[k].errorCode # 0
           /\ \A j \in 1 .. (k - 1) : last.source[j].errorCode = 0) =>
            /\ Len(SelectSeq(last.calls, IsErrorCompletion)) = 1
            /\ Len(SelectSeq(last.calls, IsDataCompletion)) = k - 1
            /\ IsErrorCompletion(last.calls[Len(last.calls)])

\* C8: when the data source answers with length 0 and errorCode 0 while
\* bytes are still required, the FETCH_DATA callback has submitted a
\* transfer-error completion as its last call; when the whole range was
\* delivered it has submitted no transfer-error completion and its last
\* call is a final transfer-data completion.
FetchDataEndOfFile ==
    /\ \A k \in DOMAIN last.source :
          (FetchDataReturned
             /\ last.request.requiredLength > 0
             /\ last.source[k] = ChunkResponse(0, 0)
             /\ Delivered(last.source, k - 1) < last.request.requiredLength) =>
              /\ Len(SelectSeq(last.calls, IsErrorCompletion)) = 1
              /\ IsErrorCompletion(last.calls[Len(last.calls)])
    /\ (FetchDataReturned
          /\ SourceIsComplete(last.source, last.request.requiredLength)) =>
          /\ SelectSeq(last.calls, IsErrorCompletion) = <<>>
          /\ last.calls # <<>>
          /\ IsDataCompletion(last.calls[Len(last.calls)])
          /\ IsFinal(last.calls[Len(last.calls)])

(***************************************************************************)
(* Properties of the functions that need a connection, checked under       *)
(* SpecApi.                                                                *)
(***************************************************************************)
ConnectionOps ==
    {"CfapiBridgeDisconnect", "CfapiBridgeTransferData",
     "CfapiBridgeTransferComplete", "CfapiBridgeTransferError",
     "CfapiBridgeReportProgress", "CfapiBridgeAckFetchPlaceholders"}

\* The step is a call of one of the functions that need a connection.
ConnectionOpStep == last'.op \in ConnectionOps /\ last'.thread \in AppThreads

\* The function returned NotInitialized, made no OS call and changed nothing
\* of the bridge.
RefusedWithoutEffect ==
    /\ last'.result = <<CFAPI_BRIDGE_ERROR_NOT_INITIALIZED>>
    /\ last'.calls = <<>>
    /\ UNCHANGED <<g_initialized, queueVars, g_queueCS, g_newRequestEvent,
                   libVars, osConnections, pending>>

\* C9 as stated: a function that needs a connection, called on an
\* initialized bridge that holds no connection (no successful Connect, or
\* after Disconnect), returns NotInitialized, makes no OS call and changes no
\* bridge state.
DisconnectedOpStep ==
    (ConnectionOpStep /\ g_initialized = 1 /\ osConnections = {}) =>
        RefusedWithoutEffect

UninitializedOpStep ==
    (ConnectionOpStep /\ g_initialized = 0) => RefusedWithoutEffect

WaitEnds(t) == pc[t] = "wait_block" /\ pc'[t] = "idle"

\* C11: a CfapiBridgeWaitForRequest that waits on an empty queue whose event
\* is not signalled (no enqueue has signalled it) returns
\* CFAPI_BRIDGE_ERROR_TIMEOUT, never CFAPI_BRIDGE_OK, and leaves the queue
\* and the event as they are.
UnsignalledWaitStep ==
    \A t \in AppThreads :
        (WaitEnds(t) /\ g_queueCount = 0 /\ g_newRequestEvent = "nonsignaled") =>
            /\ last'.thread = t
            /\ last'.op = "CfapiBridgeWaitForRequest"
            /\ last'.result = <<CFAPI_BRIDGE_ERROR_TIMEOUT>>
            /\ g_newRequestEvent' = g_newRequestEvent
            /\ pending' = pending
            /\ UNCHANGED queueVars

UnsignalledWaitTimesOut == [][UnsignalledWaitStep]_vars

\* A wait has just timed out on a queue that is empty and quiet.
UnsignalledWaitTimesOut_Witness ==
    /\ last.op = "CfapiBridgeWaitForRequest"
    /\ last.result = <<CFAPI_BRIDGE_ERROR_TIMEOUT>>
    /\ g_queueCount = 0
    /\ g_newRequestEvent = "nonsignaled"
    /\ \A t \in CallbackThreads : pc[t] = "idle"

\* C12: CfapiBridgeWaitForRequest returns CFAPI_BRIDGE_OK only if a request
\* is available: whenever it has just returned CFAPI_BRIDGE_OK the queue is
\* non-empty, also after an enqueue followed by a poll with no wait between
\* them.
WaitOkMeansRequestAvailable ==
    (last.op = "CfapiBridgeWaitForRequest" /\ last.result = <<CFAPI_BRIDGE_OK>>) =>
        g_queueCount > 0

(***************************************************************************)
(* Properties of the lifecycle and the connection, checked under SpecApi.  *)
(***************************************************************************)
IsAckData(c) ==
    /\ c.fn = "CfExecute"
    /\ c.type = "ACK_DATA"
    /\ c.status = "S_OK"
    /\ c.connectionKey \in CallbackConnKeys
    /\ c.transferKey \in TransferKeys

\* C13: every invocation of OnValidateDataCallback has submitted exactly one
\* ACK_DATA completion with status S_OK for the callback's keys when it
\* returns, in every lifecycle state of the bridge: before Init, after Init,
\* after Cleanup.
ValidateDataAcknowledged ==
    last.op = "OnValidateDataCallback" =>
        Len(SelectSeq(last.calls, IsAckData)) = 1

\* The step is a return of CfapiBridgeConnect that got past its checks of
\* g_initialized and of its arguments.
ConnectStep ==
    /\ last'.op = "CfapiBridgeConnect"
    /\ g_initialized = 1
    /\ last'.result # <<CFAPI_BRIDGE_ERROR_INVALID_PARAM>>

\* C14 as stated: CfapiBridgeConnect on a bridge that already holds a live
\* registration returns success without registering again with the OS, and
\* at most one registration is live after any sequence of Connect and
\* Disconnect calls.
ConnectWhileConnectedStep ==
    /\ (ConnectStep /\ osConnections # {}) =>
          /\ last'.result = <<CFAPI_BRIDGE_OK>>
          /\ last'.calls = <<>>
          /\ osConnections' = osConnections
    /\ Cardinality(osConnections') <= 1

ConnectIsIdempotent == [][ConnectWhileConnectedStep]_vars

\* C14 as amended: CfapiBridgeConnect with valid arguments on an initialized
\* bridge makes exactly one registration call to the OS whether or not a
\* registration is live; if the OS accepts, it returns success, writes the
\* new key and that registration is live next to the earlier ones; if not,
\* it returns API_FAILED and the live registrations are as before.
ConnectRegistersStep ==
    ConnectStep =>
        /\ Len(last'.calls) = 1
        /\ last'.calls[1].fn = "CfConnectSyncRoot"
        /\ IF last'.calls[1].ok
           THEN /\ last'.result = <<CFAPI_BRIDGE_OK>>
                /\ last'.connectionKey = <<last'.calls[1].connectionKey>>
                /\ last'.calls[1].connectionKey \notin osConnections
                /\ osConnections' =
                      osConnections \cup {last'.calls[1].connectionKey}
           ELSE /\ last'.result = <<CFAPI_BRIDGE_ERROR_API_FAILED>>
                /\ osConnections' = osConnections

ConnectAlwaysRegisters == [][ConnectRegistersStep]_vars

\* A second CfapiBridgeConnect has just succeeded: two registrations are
\* live.
ConnectAlwaysRegisters_Witness ==
    /\ last.op = "CfapiBridgeConnect"
    /\ last.result = <<CFAPI_BRIDGE_OK>>
    /\ Cardinality(osConnections) = 2

\* C15: when the OS registration call fails, CfapiBridgeConnect returns
\* API_FAILED, no registration is added, *connectionKey is not written and
\* the queue is unchanged.
ConnectFailureStep ==
    (ConnectStep /\ last'.calls # <<>> /\ ~last'.calls[1].ok) =>
        /\ last'.result = <<CFAPI_BRIDGE_ERROR_API_FAILED>>
        /\ last'.connectionKey = <<>>
        /\ osConnections' = osConnections
        /\ pending' = pending
        /\ UNCHANGED <<queueVars, g_newRequestEvent, g_initialized>>

ConnectFailureLeavesState == [][ConnectFailureStep]_vars

\* CfapiBridgeConnect has just failed in the OS on a bridge that holds no
\* registration and whose queue holds a request.
ConnectFailureLeavesState_Witness ==
    /\ last.op = "CfapiBridgeConnect"
    /\ last.result = <<CFAPI_BRIDGE_ERROR_API_FAILED>>
    /\ osConnections = {}
    /\ g_queueCount > 0

\* C16: CfapiBridgeInit on an initialized bridge returns success and leaves
\* all bridge state unchanged: head, tail, count, the stored requests and the
\* event are not reset.
InitAgainStep ==
    (last'.op = "CfapiBridgeInit" /\ g_initialized = 1) =>
        /\ last'.result = <<CFAPI_BRIDGE_OK>>
        /\ last'.calls = <<>>
        /\ pending' = pending
        /\ UNCHANGED <<g_initialized, queueVars, g_queueCS, g_newRequestEvent,
                       libVars, osConnections>>

InitIsIdempotent == [][InitAgainStep]_vars

\* CfapiBridgeInit has just returned on a bridge whose queue holds requests,
\* whose indices have advanced and whose event is signalled.
InitIsIdempotent_Witness ==
    /\ last.op = "CfapiBridgeInit"
    /\ last.result = <<CFAPI_BRIDGE_OK>>
    /\ g_queueCount > 0
    /\ g_queueTail # 0
    /\ g_newRequestEvent = "signaled"

\* C17: CfapiBridgeCleanup called while a registration is live releases it:
\* when it has returned, no registration remains live in the OS.
CleanupReleasesConnection ==
    last.op = "CfapiBridgeCleanup" => osConnections = {}

(***************************************************************************)
(* Properties of the teardown, checked under SpecTeardown.                 *)
(***************************************************************************)
\* Thread t is inside CfapiBridgeWaitForRequest, waiting on the event.
BlockedInWait(t) == pc[t] = "wait_block"

\* C18: CfapiBridgeCleanup wakes every consumer blocked in the wait before
\* it closes the event and deletes the critical section: once Cleanup has
\* returned, no thread is left waiting on the closed event handle.
CleanupWakesWaiters ==
    last.op = "CfapiBridgeCleanup" =>
        \A t \in AppThreads : ~BlockedInWait(t)

(***************************************************************************)
(* Properties of the poll, checked under SpecQueue.                        *)
(***************************************************************************)
\* The step in which thread t leaves the critical section of DequeueRequest.
DequeueLeavesSection(t) == pc[t] = "deq_cs" /\ pc'[t] # "deq_cs"

\* C19: CfapiBridgePollRequest on an initialized bridge does not wait for a
\* request: from the critical section it returns in one step.  On an empty
\* queue it returns QUEUE_EMPTY and leaves head, tail, count, the slots and
\* the caller's buffer as they are; otherwise it returns OK, copies the
\* request of the head slot out, advances the head and decrements the count
\* by exactly one.
PollStep ==
    \A t \in AppThreads :
        DequeueLeavesSection(t) =>
            /\ pc'[t] = "idle"
            /\ last'.thread = t
            /\ last'.op = "CfapiBridgePollRequest"
            /\ IF g_queueCount = 0
               THEN /\ last'.result = <<CFAPI_BRIDGE_ERROR_QUEUE_EMPTY>>
                    /\ last'.request = ZeroRequest
                    /\ UNCHANGED queueVars
               ELSE /\ last'.result = <<CFAPI_BRIDGE_OK>>
                    /\ last'.request = g_requestQueue[g_queueHead]
                    /\ g_queueCount' = g_queueCount - 1
                    /\ g_queueHead' =
                          (g_queueHead + 1) % CFAPI_BRIDGE_MAX_QUEUE_SIZE
                    /\ UNCHANGED <<g_requestQueue, g_queueTail>>

PollNeverWaits == [][PollStep]_vars

\* A poll has just reported an empty queue whose head slot still holds the
\* bytes of a request consumed earlier: nothing was copied out.
PollNeverWaits_Witness ==
    /\ last.op = "CfapiBridgePollRequest"
    /\ last.result = <<CFAPI_BRIDGE_ERROR_QUEUE_EMPTY>>
    /\ last.request = ZeroRequest
    /\ g_initialized = 1
    /\ g_queueCount = 0
    /\ g_requestQueue[g_queueHead] # ZeroRequest

\* The i-th oldest request the ring holds.
RingEntry(i) ==
    g_requestQueue[(g_queueHead + i - 1) % CFAPI_BRIDGE_MAX_QUEUE_SIZE]

\* C20: each successfully enqueued request is consumed exactly once: under
\* any interleaving of producers and polling consumers the ring holds,
\* between head and tail, exactly the requests that were enqueued and not yet
\* handed to a poll, each once and in order: none is lost, none is still
\* there to be handed out a second time.
ConsumedExactlyOnce ==
    /\ g_queueCount = Len(pending)
    /\ \A i \in 1 .. Len(pending) : RingEntry(i) = pending[i]
    /\ g_queueTail =
          (g_queueHead + g_queueCount) % CFAPI_BRIDGE_MAX_QUEUE_SIZE

\* Two consumers are inside CfapiBridgePollRequest at once, racing for the
\* single request the queue holds, while a producer is about to enqueue.
ConsumedExactlyOnce_Witness ==
    /\ g_queueCount = 1
    /\ g_queueHead # 0
    /\ \E t, u \in AppThreads :
          /\ t # u
          /\ pc[t] = "deq_cs"
          /\ pc[u] = "deq_enter"
    /\ \E c \in CallbackThreads : pc[c] = "enq_enter"

(***************************************************************************)
(* Further properties of the completion functions, checked under SpecApi.  *)
(***************************************************************************)
\* C21: CfapiBridgeReportProgress on an initialized bridge always returns
\* CFAPI_BRIDGE_OK: without CfReportProviderProgress it makes no OS call,
\* with it it makes the one progress call and returns OK whether or not the
\* OS accepted it; no bridge state changes in either case.
ReportProgressStep ==
    (last'.op = "CfapiBridgeReportProgress" /\ g_initialized = 1) =>
        /\ last'.result = <<CFAPI_BRIDGE_OK>>
        /\ IF g_pfn.CfReportProviderProgress = "NULL"
           THEN last'.calls = <<>>
           ELSE /\ Len(last'.calls) = 1
                /\ last'.calls[1].fn = "CfReportProviderProgress"
        /\ pending' = pending
        /\ UNCHANGED <<g_initialized, queueVars, g_queueCS, g_newRequestEvent,
                       libVars, osConnections>>

ReportProgressIsBestEffort == [][ReportProgressStep]_vars

\* CfapiBridgeReportProgress has just returned OK although the OS refused
\* the progress call.
ReportProgressIsBestEffort_Witness ==
    /\ last.op = "CfapiBridgeReportProgress"
    /\ last.result = <<CFAPI_BRIDGE_OK>>
    /\ last.calls # <<>>
    /\ ~last.calls[1].ok

(***************************************************************************)
(* Properties of the routing of callbacks.                                 *)
(***************************************************************************)
\* C22: a FETCH_DATA callback is never placed on the request queue: in every
\* reachable state no live entry of the ring has type
\* CFAPI_CALLBACK_FETCH_DATA.
NoFetchDataQueued ==
    \A i \in 1 .. g_queueCount :
        RingEntry(i).type # CFAPI_CALLBACK_FETCH_DATA

\* Thread u is inside a CANCEL_FETCH_DATA callback for transfer key tk.
CancelArrived(u, tk) ==
    /\ pc[u] # "idle"
    /\ req[u].type = CFAPI_CALLBACK_CANCEL_FETCH_DATA
    /\ req[u].transferKey = tk

IsCancelCompletion(c) ==
    IsErrorCompletion(c) /\ c.status = "ERROR_REQUEST_ABORTED"

\* C23: when a CANCEL_FETCH_DATA callback for a transfer key arrives while
\* the FETCH_DATA callback of the same key is still running and has chunks
\* left to pull, the FETCH_DATA callback returns having submitted exactly one
\* transfer-error completion with a cancellation code, as its last call, and
\* not all of the requested data.
FetchCancelledStep ==
    \A t, u \in CallbackThreads :
        (/\ pc[t] # "idle"
         /\ pc'[t] = "idle"
         /\ last'.op = "OnFetchDataCallback"
         /\ last'.thread = t
         /\ Len(last'.source) >= 2
         /\ CancelArrived(u, last'.request.transferKey)) =>
            /\ Len(SelectSeq(last'.calls, IsCancelCompletion)) = 1
            /\ IsCancelCompletion(last'.calls[Len(last'.calls)])
            /\ Len(SelectSeq(last'.calls, IsDataCompletion)) < Len(last'.source)

CancellationEndsFetch == [][FetchCancelledStep]_vars

(***************************************************************************)
(* The notification callbacks, checked under SpecCancel.                   *)
(***************************************************************************)
NotificationTypes ==
    {CFAPI_CALLBACK_CANCEL_FETCH_DATA, CFAPI_CALLBACK_NOTIFY_DELETE,
     CFAPI_CALLBACK_NOTIFY_RENAME}

\* C24: on an initialized bridge whose queue is not full, a CANCEL_FETCH_DATA,
\* NOTIFY_DELETE or NOTIFY_RENAME callback appends exactly one request, with
\* the callback's type, connectionKey and transferKey, at the tail of the
\* queue, submits no completion to the OS, and returns without waiting for
\* anything once the request is stored.
NotificationStored ==
    \A t \in CallbackThreads :
        /\ (/\ pc[t] = "idle" /\ pc'[t] # "idle" /\ g_initialized = 1
            /\ req'[t].type \in NotificationTypes) =>
                /\ req'[t].connectionKey \in CallbackConnKeys
                /\ req'[t].transferKey \in TransferKeys
                /\ UNCHANGED <<queueVars, pending, g_newRequestEvent>>
        /\ (/\ EnqueueLeavesSection(t) /\ req[t].type \in NotificationTypes
            /\ g_queueCount < CFAPI_BRIDGE_MAX_QUEUE_SIZE) =>
                /\ pc'[t] = "enq_signal"
                /\ g_queueCount' = g_queueCount + 1
                /\ g_requestQueue' =
                      [g_requestQueue EXCEPT ![g_queueTail] = req[t]]
                /\ g_queueTail' =
                      (g_queueTail + 1) % CFAPI_BRIDGE_MAX_QUEUE_SIZE
                /\ g_queueHead' = g_queueHead
                /\ pending' = Append(pending, req[t])
                /\ req'[t] = req[t]
        /\ (pc[t] = "enq_signal" /\ req[t].type \in NotificationTypes) =>
                /\ ENABLED EnqueueRequest_SetEvent(t)
                /\ pc'[t] # pc[t] =>
                      /\ pc'[t] = "idle"
                      /\ last'.thread = t
                      /\ last'.op = CallbackName(req[t].type)
                      /\ last'.request = req[t]
                      /\ last'.result = <<CFAPI_BRIDGE_OK>>
                      /\ last'.calls = <<>>
                      /\ UNCHANGED <<queueVars, pending>>

ObservationCallbacks ==
    {"OnCancelFetchPlaceholdersCallback", "OnNotifyFileOpenCompletionCallback",
     "OnNotifyFileCloseCompletionCallback", "OnNotifyDehydrateCallback",
     "OnNotifyDehydrateCompletionCallback", "OnNotifyDeleteCompletionCallback",
     "OnNotifyRenameCompletionCallback"}

\* C25: the file-open completion, file-close completion, dehydrate,
\* dehydrate completion, delete completion, rename completion and
\* cancel-fetch-placeholders callbacks leave the queue, the wake-up event and
\* the lifecycle state (initialized flag, loaded library, connections) as
\* they are and submit no completion to the OS.
ObservationStepIsInert ==
    last'.op \in ObservationCallbacks =>
        /\ last'.calls = <<>>
        /\ last'.result = <<>>
        /\ UNCHANGED <<g_initialized, queueVars, g_queueCS, g_newRequestEvent,
                       libVars, osConnections, pending>>

ObservationCallbacksAreInert == [][ObservationStepIsInert]_vars

\* A dehydrate callback has just returned on an initialized, connected bridge
\* whose queue holds a request and whose event is signaled.
ObservationCallbacksAreInert_Witness ==
    /\ last.op = "OnNotifyDehydrateCallback"
    /\ g_initialized = 1
    /\ osConnections # {}
    /\ g_queueCount > 0
    /\ g_newRequestEvent = "signaled"

(***************************************************************************)
(* The wake-up event, checked under SpecQueue.                             *)
(***************************************************************************)
\* The event releases thread t from its wait.
WaitReleased(t) ==
    /\ WaitEnds(t)
    /\ g_newRequestEvent # "NULL"
    /\ last'.result = <<CFAPI_BRIDGE_OK>>

\* C26: a successful enqueue wakes exactly one waiter, and the signal does
\* not count.  The SetEvent that ends a successful EnqueueRequest leaves the
\* event signalled whether it was signalled already or not, so that several
\* enqueues before any wait leave a single pending wake; a waiter the event
\* can release is released only by a signalled event and takes the signal
\* with it, so that of the consumers blocked in the wait one signal releases
\* exactly one and the others stay blocked until the next signal or their
\* timeout.
WakeStep ==
    /\ \A c \in CallbackThreads :
          (pc[c] = "enq_signal" /\ pc'[c] = "idle" /\ g_newRequestEvent # "NULL") =>
              /\ g_newRequestEvent' = "signaled"
              /\ \A t \in AppThreads : pc'[t] = pc[t]
    /\ \A t \in AppThreads :
          /\ (pc[t] = "wait_block" /\ g_newRequestEvent = "signaled") =>
                ENABLED WaitForRequest_Wait(t)
          /\ WaitReleased(t) =>
                /\ g_newRequestEvent = "signaled"
                /\ g_newRequestEvent' = "nonsignaled"
                /\ \A u \in AppThreads \ {t} : pc'[u] = pc[u]

EnqueueWakesOneWaiter == [][WakeStep]_vars

\* Two consumers were blocked on an empty queue when the event was signalled
\* once: one of them has just been released, the other, waiting without a
\* timeout, is still blocked on the event, which is no longer signalled.
EnqueueWakesOneWaiter_Witness ==
    /\ last.op = "CfapiBridgeWaitForRequest"
    /\ last.result = <<CFAPI_BRIDGE_OK>>
    /\ g_queueCount = 0
    /\ g_newRequestEvent = "nonsignaled"
    /\ \E u \in AppThreads \ {last.thread} :
          pc[u] = "wait_block" /\ timeoutMs[u] = "INFINITE"

(***************************************************************************)
(* The callback table, checked under SpecApi, and the argument checks,     *)
(* checked under SpecArgs.                                                 *)
(***************************************************************************)
\* CfapiBridgeConnect has just returned success.
ConnectSucceeded ==
    last'.op = "CfapiBridgeConnect" /\ last'.result = <<CFAPI_BRIDGE_OK>>

TableTypes(table) == {table[i].Type : i \in 1 .. Len(table)}

IsTerminated(table) ==
    /\ table # <<>>
    /\ table[Len(table)] = [Type |-> "NONE", Callback |-> "NULL"]

\* C27 as stated: a successful Connect hands the OS a table that holds every
\* callback type the bridge has a handler for, FETCH_DATA, VALIDATE_DATA,
\* CANCEL_FETCH_DATA, FETCH_PLACEHOLDERS, NOTIFY_DELETE and NOTIFY_RENAME
\* among them, and ends with a terminator entry.
ConnectRegistersFullTableStep ==
    ConnectSucceeded =>
        /\ DOMAIN CallbackHandler \subseteq TableTypes(last'.callbacks)
        /\ {"FETCH_DATA", "VALIDATE_DATA", "CANCEL_FETCH_DATA",
            "FETCH_PLACEHOLDERS", "NOTIFY_DELETE", "NOTIFY_RENAME"}
              \subseteq TableTypes(last'.callbacks)
        /\ IsTerminated(last'.callbacks)

SkippedTypes == {"FETCH_PLACEHOLDERS", "CANCEL_FETCH_PLACEHOLDERS"}

\* C27: a successful Connect hands the OS a table that holds, once each and
\* with its own handler, every callback type the bridge has a handler for
\* except FETCH_PLACEHOLDERS and CANCEL_FETCH_PLACEHOLDERS, which are not
\* registered; FETCH_DATA, VALIDATE_DATA, CANCEL_FETCH_DATA, NOTIFY_DELETE and
\* NOTIFY_RENAME are among the registered types.  The table ends with a
\* terminator entry, the only one it holds.
ConnectRegistersTableStep ==
    ConnectSucceeded =>
        LET table == last'.callbacks
            n == Len(table)
        IN  /\ IsTerminated(table)
            /\ n = Cardinality(DOMAIN CallbackHandler \ SkippedTypes) + 1
            /\ {table[i].Type : i \in 1 .. (n - 1)} =
                  DOMAIN CallbackHandler \ SkippedTypes
            /\ \A i \in 1 .. (n - 1) :
                  table[i].Callback = CallbackHandler[table[i].Type]
            /\ {"FETCH_DATA", "VALIDATE_DATA", "CANCEL_FETCH_DATA",
                "NOTIFY_DELETE", "NOTIFY_RENAME"} \subseteq TableTypes(table)

ArgsTested(r) ==
    /\ r.op \in {"CfapiBridgeConnect", "CfapiBridgePollRequest",
                 "CfapiBridgeTransferData"}
    /\ Len(r.args) > 0

\* A required pointer argument is null, or the buffer is empty.
HasNullArg(r) ==
    CASE r.op = "CfapiBridgeConnect" -> r.args[1] = "NULL" \/ r.args[2]
      [] r.op = "CfapiBridgePollRequest" -> r.args[1]
      [] r.op = "CfapiBridgeTransferData" -> r.args[1] \/ r.args[2] <= 0

HasEmptyPath(r) ==
    r.op = "CfapiBridgeConnect" /\ r.args[1] = "empty" /\ ~ r.args[2]

\* The function returned InvalidParam, called nothing and changed nothing.
RejectedWithoutEffect ==
    /\ last'.result = <<CFAPI_BRIDGE_ERROR_INVALID_PARAM>>
    /\ last'.calls = <<>>
    /\ last'.connectionKey = <<>>
    /\ UNCHANGED <<g_initialized, queueVars, g_queueCS, g_newRequestEvent,
                   libVars, osConnections, pending>>

\* C28 as stated, for an initialized bridge: Connect with a null or empty
\* syncRootPath or a null connectionKey output, PollRequest with a null output
\* and TransferData with a null buffer or bufferLength <= 0 return
\* InvalidParam, make no OS call and leave the queue and every other piece of
\* state unchanged.
InvalidArgStep ==
    (/\ g_initialized = 1
     /\ ArgsTested(last')
     /\ HasNullArg(last') \/ HasEmptyPath(last')) =>
        RejectedWithoutEffect

InvalidArgsRejected == [][InvalidArgStep]_vars

\* C28: on an initialized bridge, Connect with a null syncRootPath or a null
\* connectionKey output, PollRequest with a null output and TransferData with
\* a null buffer or bufferLength <= 0 return InvalidParam, make no OS call and
\* leave the queue and every other piece of state unchanged.  The bridge does
\* not test syncRootPath for emptiness: an empty path goes to the OS
\* registration call like any other, and the OS decides.  On a bridge that is
\* not initialized NotInitialized is returned whatever the arguments are.
NullArgStep ==
    ArgsTested(last') =>
        /\ (g_initialized = 1 /\ HasNullArg(last')) => RejectedWithoutEffect
        /\ (g_initialized = 1 /\ HasEmptyPath(last')) =>
              /\ Len(last'.calls) = 1
              /\ last'.calls[1].fn = "CfConnectSyncRoot"
              /\ last'.result \in {<<CFAPI_BRIDGE_OK>>,
                                   <<CFAPI_BRIDGE_ERROR_API_FAILED>>}
        /\ g_initialized = 0 =>
              /\ last'.result = <<CFAPI_BRIDGE_ERROR_NOT_INITIALIZED>>
              /\ last'.calls = <<>>

NullArgsRejected == [][NullArgStep]_vars

\* Connect has just refused a null connectionKey output on an initialized,
\* connected bridge whose queue holds a request.
NullArgsRejected_Witness ==
    /\ last.op = "CfapiBridgeConnect"
    /\ last.args = <<"path", TRUE>>
    /\ last.result = <<CFAPI_BRIDGE_ERROR_INVALID_PARAM>>
    /\ g_initialized = 1
    /\ osConnections # {}
    /\ g_queueCount > 0

(***************************************************************************)
(* The critical section, checked under SpecLock.                           *)
(***************************************************************************)
\* The positions between EnterCriticalSection and LeaveCriticalSection.
InLockedSection(t) == pc[t] \in {"enq_cs", "deq_cs", "wait_cs", "cnt_cs"}

\* C29: the queue lock is held only across the index and copy work of
\* EnqueueRequest, DequeueRequest, CfapiBridgeWaitForRequest and
\* CfapiBridgeGetQueueCount.  Its owner is a thread between the Enter and the
\* Leave of one of them and no other thread is there with it; a thread that
\* signals the event, blocks in the wait, waits to enter or is outside these
\* functions does not hold it; a function that has returned, by any path, the
\* full-queue and empty-queue returns included, has released it, and so has
\* any function that called the OS.
LockHeldOnlyInSection ==
    /\ \A t \in Threads : g_queueCS = t <=> InLockedSection(t)
    /\ Cardinality({t \in Threads : InLockedSection(t)}) <= 1
    /\ \A t \in Threads :
          pc[t] \in {"idle", "enq_signal", "wait_block"} => g_queueCS # t
    /\ last.thread # NoThread => g_queueCS # last.thread
    /\ last.calls # <<>> =>
          g_queueCS # last.thread /\ ~ InLockedSection(last.thread)

\* One producer is inside the critical section while the other is about to
\* signal the event, a consumer is blocked in its wait and the reader of the
\* queue depth waits to enter.
LockHeldOnlyInSection_Witness ==
    /\ pc["cb1"] = "enq_cs"
    /\ pc["cb2"] = "enq_signal"
    /\ pc["app1"] = "wait_block"
    /\ pc["app2"] = "cnt_enter"

(***************************************************************************)
(* The ring indices, checked under SpecQueue.                              *)
(***************************************************************************)
\* The slots that hold the queued requests: g_queueCount slots from the head.
LiveSlots ==
    {(g_queueHead + i) % CFAPI_BRIDGE_MAX_QUEUE_SIZE :
        i \in 0 .. (g_queueCount - 1)}

\* C30: in every reachable state of an initialized bridge the head and the
\* tail are indices of the ring, the tail is count slots after the head
\* modulo the capacity, and the queued requests occupy count different slots
\* starting at the head.
RingIndicesConsistent ==
    g_initialized = 1 =>
        /\ 0 <= g_queueHead /\ g_queueHead < CFAPI_BRIDGE_MAX_QUEUE_SIZE
        /\ 0 <= g_queueTail /\ g_queueTail < CFAPI_BRIDGE_MAX_QUEUE_SIZE
        /\ g_queueTail =
              (g_queueHead + g_queueCount) % CFAPI_BRIDGE_MAX_QUEUE_SIZE
        /\ Cardinality(LiveSlots) = g_queueCount
        /\ LiveSlots \subseteq Slots

\* The queue has wrapped around: the request it holds sits in the last slot
\* and the tail is back at slot 0.
RingIndicesConsistent_Witness ==
    /\ g_initialized = 1
    /\ g_queueCount = 1
    /\ g_queueHead = CFAPI_BRIDGE_MAX_QUEUE_SIZE - 1
    /\ g_queueTail = 0

(***************************************************************************)
(* Progress of the consumer, checked under SpecLive.                       *)
(***************************************************************************)
\* CfapiBridgePollRequest has just handed a request to the consumer.
PollHandedRequest ==
    last.op = "CfapiBridgePollRequest" /\ last.result = <<CFAPI_BRIDGE_OK>>

\* C31: no wake-up is lost.  On a bridge that stays initialized, with one
\* consumer that keeps calling CfapiBridgeWaitForRequest and
\* CfapiBridgePollRequest and with fair scheduling, whenever the queue holds
\* a successfully enqueued request a poll eventually hands one out; the queue
\* being first in, first out, every enqueued request is eventually returned.
\* This covers the enqueue that falls between the consumer's test of the
\* count and its wait on the event, and the enqueues whose signals coalesce.
NoLostWakeup == (pending # <<>>) ~> PollHandedRequest

\* The consumer found the queue empty and is on its way into a wait without
\* timeout while two requests have been stored since and the single signal
\* for both is set.
NoLostWakeup_Witness ==
    /\ pc["app1"] = "wait_block"
    /\ timeoutMs["app1"] = "INFINITE"
    /\ Len(pending) = 2
    /\ g_newRequestEvent = "signaled"
    /\ \A t \in CallbackThreads : pc[t] = "idle"

(***************************************************************************)
(* CfapiBridgeCleanup against running threads, checked under SpecRace.     *)
(***************************************************************************)
\* Thread t enters or leaves the critical section in this step.
UsesQueueLock(t) ==
    /\ pc[t] \in {"enq_enter", "enq_cs", "deq_enter", "deq_cs",
                  "wait_enter", "wait_cs", "cnt_enter", "cnt_cs"}
    /\ pc'[t] # pc[t]

\* Thread t calls SetEvent in this step.
SignalsEvent(t) == pc[t] = "enq_signal" /\ pc'[t] # pc[t]

\* Thread t calls through g_pfnCfExecute in this step.
CallsCfExecute(t) == pc[t] = "exec_call" /\ pc'[t] # pc[t]

\* C32: no thread uses the critical section, the event or the function
\* pointers after CfapiBridgeCleanup has destroyed them: a thread that passed
\* the test of g_initialized enters and leaves the critical section only
\* while it exists, signals the event only while its handle is open, is never
\* left waiting on a closed handle, and never calls through a pointer that
\* was cleared.
NoUseAfterCleanupStep ==
    \A t \in Threads :
        /\ UsesQueueLock(t) => g_initialized = 1
        /\ SignalsEvent(t) => g_newRequestEvent # "NULL"
        /\ pc'[t] = "wait_block" => g_newRequestEvent' # "NULL"
        /\ CallsCfExecute(t) => g_pfn.CfExecute = "valid"

NoUseAfterCleanup == [][NoUseAfterCleanupStep]_vars

====
